---- MODULE Spec2Model ----
(***************************************************************************)
(* State machine of the Valetudo platform's per-vacuum polling engine      *)
(* (src/src/module.ts, src/src/valetudo-client.ts).                        *)
(*                                                                         *)
(* One vacuum record is followed from the moment addVacuum has stored it.  *)
(* An activation of updateVacuumState is a record of the bag `cycles`; its *)
(* field pc names the await it is suspended at, and every action runs the  *)
(* synchronous code between two awaits.  Timers (the start-up setTimeout   *)
(* and the setInterval handle) fire whenever they are armed: setInterval   *)
(* does not wait for the promise its async callback returns.               *)
(*                                                                         *)
(* Three specifications follow three configurations of the platform:       *)
(*   Spec           attributes only, every attribute snapshot possible;    *)
(*   SpecLifecycle  consumable tracking, with onShutdown at any moment;    *)
(*   SpecFull       position and consumable tracking.                      *)
(* The last two follow a vacuum whose attributes are steady.               *)
(* Others stand beside them:                                               *)
(*   SpecRegistry   the registry under overlapping calls of addVacuum;     *)
(*   SpecLookup     calls of findSegmentAtPositionCached;                  *)
(*   SpecStatus     calls of the two status mappings;                      *)
(*   SpecCatalog    the clean-mode catalog a device is created with;       *)
(*   SpecStartup    the start of polling, with onShutdown at any moment;   *)
(*   SpecInterval   the poll period of every configured interval;          *)
(*   SpecCache      calls of createCachedLayers;                           *)
(*   SpecRegistered Spec for a record whose address discovery updates;     *)
(*   SpecRegion     the region sub-step of the position step;              *)
(*   SpecThreshold  the two tests of a consumable against the threshold;   *)
(*   SpecCleanMode  the catalog and the clean-mode branch of changeToMode; *)
(*   SpecSink       Spec with what the downstream sink holds;              *)
(*   SpecSelection  the selectAreas handler and the run-mode branch;       *)
(*   SpecAreas      the region catalog a device is created with.           *)
(***************************************************************************)
EXTENDS Integers, FiniteSets, Sequences, Bags, TLC

(***************************************************************************)
(* Bounds of the model.                                                    *)
(***************************************************************************)
\* activations of updateVacuumState that may be suspended at the same time
MaxInFlight == 2
\* number of clock steps the model follows
MaxClockSteps == 2
\* activations of addVacuum that may be suspended at the same time
MaxAdding == 2
\* layers of a cache that findSegmentAtPositionCached is called with
MaxLayers == 3
\* fan-speed presets in a list of the vendor
MaxPresets == 3
\* seconds of the clock that the start of polling is followed for
MaxSeconds == 11
\* configured poll intervals, in steps of PollStep
MaxPollSteps == 70

(***************************************************************************)
(* Program constants.                                                      *)
(***************************************************************************)
\* null of a number-typed field, undefined of a string-typed one
null == 0 - 1
undefined == "undefined"

\* const enum OperationalStateValue
Stopped == 0
Running == 1
Paused == 2
Error == 3
SeekingCharger == 64
Charging == 65
Docked == 66

\* const enum RvcRunModeValue
Idle == 1
Cleaning == 2

MIN_POLL == 5000
MAX_POLL == 60000
MIN_INITIAL_DELAY == 10000
STAGGER == 1000
DEFAULT_POLL == 30000
CONSUMABLES_CHECK_INTERVAL == 300000
DEFAULT_REFRESH_MS == 3600000
DEFAULT_WARNING_THRESHOLD == 10
\* granularity of the model's clock, in ms
ClockStep == CONSUMABLES_CHECK_INTERVAL

Min(a, b) == IF a < b THEN a ELSE b
Max(a, b) == IF a > b THEN a ELSE b

(***************************************************************************)
(* Pure functions of the enumeration mapper.                               *)
(***************************************************************************)
\* values that are not numbers: the function Object and the object
\* Object.prototype
ObjectFunction == 0 - 2
ObjectPrototype == 0 - 3

\* a status mapping that compares the status as the vendor spells it
keepCase(s) == s

\* String.prototype.toLowerCase on the status strings the model feeds in
toLowerCase(s) ==
  CASE s \in {"Idle", "IDLE"} -> "idle"
    [] s \in {"Docked", "DOCKED"} -> "docked"
    [] s \in {"Cleaning", "CLEANING"} -> "cleaning"
    [] s \in {"Returning", "RETURNING"} -> "returning"
    [] s \in {"Manual_Control", "MANUAL_CONTROL"} -> "manual_control"
    [] s \in {"Moving", "MOVING"} -> "moving"
    [] s \in {"Paused", "PAUSED"} -> "paused"
    [] s \in {"Error", "ERROR"} -> "error"
    [] s \in {"Charging", "CHARGING"} -> "charging"
    [] s \in {"Emptying", "EMPTYING"} -> "emptying"
    [] s \in {"Drying", "DRYING"} -> "drying"
    [] s \in {"Unknown", "UNKNOWN"} -> "unknown"
    [] s = "Medium" -> "medium"
    [] s = "MAX" -> "max"
    [] s \in {"Constructor", "CONSTRUCTOR"} -> "constructor"
    [] OTHER -> s

\* statusMap[statusLower] ?? Stopped: the table is an object literal, and a
\* key it does not own is looked up in Object.prototype; what is found
\* there is neither null nor undefined, so ?? keeps it
statusMap(s) ==
  CASE s = "constructor" -> ObjectFunction
    [] s = "__proto__" -> ObjectPrototype
    [] s = "idle" -> Docked
    [] s = "docked" -> Docked
    [] s = "cleaning" -> Running
    [] s = "returning" -> SeekingCharger
    [] s = "manual_control" -> Running
    [] s = "moving" -> Docked
    [] s = "paused" -> Paused
    [] s = "error" -> Error
    [] s = "charging" -> Charging
    [] OTHER -> Stopped

\* a mapping in which the dock sub-status does not take precedence
mapStatusIgnoringDock(status, dockStatus) == statusMap(toLowerCase(status))

mapValetudoStatusToOperationalState(status, dockStatus) ==
  LET statusLower == toLowerCase(status)
      baseState == statusMap(statusLower)
  IN IF /\ dockStatus # undefined /\ dockStatus # ""
        /\ statusLower \in {"docked", "idle", "charging"}
        /\ toLowerCase(dockStatus) \in {"emptying", "drying", "cleaning"}
     THEN Docked
     ELSE baseState

mapValetudoStatusToRunMode(status) ==
  IF toLowerCase(status) = "cleaning" THEN Cleaning ELSE Idle

\* Math.round(battery.level * 2), the level given in tenths of a percent
batPercentRemaining(levelX10) == (2 * levelX10 + 5) \div 10

batChargeState(flag) ==
  CASE flag = "charging" -> 1
    [] flag = "charged" -> 2
    [] flag \in {"discharging", "none"} -> 3
    [] OTHER -> 0

\* Math.round(a / b) for a >= 0, b > 0
RoundDiv(a, b) == (2 * a + b) \div (2 * b)

(***************************************************************************)
(* Region lookup of the client.                                            *)
(***************************************************************************)
\* squared Math.sqrt(...) of the lookup: the order of the distances is the same
distanceFromMid(dims, x, y) ==
  (x - dims.xmid) * (x - dims.xmid) + (y - dims.ymid) * (y - dims.ymid)

\* a box without its edges
inBoundsExclusive(dims, x, y) ==
  x > dims.xmin /\ x < dims.xmax /\ y > dims.ymin /\ y < dims.ymax

inBounds(dims, x, y) ==
  x >= dims.xmin /\ x <= dims.xmax /\ y >= dims.ymin /\ y <= dims.ymax

\* the layers that contain the point, whatever their type
matchingLayers(layers, x, y) ==
  SelectSeq(layers, LAMBDA l : inBounds(l.dimensions, x, y))

\* the layers that pass the filter and contain the point, in layer order
matchingSegments(layers, x, y) ==
  SelectSeq(layers, LAMBDA l : l.type = "segment" /\ inBounds(l.dimensions, x, y))

\* a sort that is not stable: the last of the nearest candidates comes out
findSegmentUnstable(cachedLayers, x, y) ==
  LET m == matchingSegments(cachedLayers.layers, x, y)
      d(i) == distanceFromMid(m[i].dimensions, x, y)
  IN IF Len(m) = 0 THEN <<>>
     ELSE IF Len(m) = 1 THEN <<m[1]>>
     ELSE LET best == CHOOSE i \in 1..Len(m) :
                        /\ \A j \in 1..Len(m) : d(i) <= d(j)
                        /\ \A j \in (i + 1)..Len(m) : d(j) > d(i)
          IN <<m[best]>>

\* <<>> is null, <<layer>> the layer found; the stable sort by distance
\* leaves the first of the nearest candidates in front
findSegmentAtPositionCached(cachedLayers, x, y) ==
  LET m == matchingSegments(cachedLayers.layers, x, y)
      d(i) == distanceFromMid(m[i].dimensions, x, y)
  IN IF Len(m) = 0 THEN <<>>
     ELSE IF Len(m) = 1 THEN <<m[1]>>
     ELSE LET best == CHOOSE i \in 1..Len(m) :
                        /\ \A j \in 1..Len(m) : d(i) <= d(j)
                        /\ \A j \in 1..(i - 1) : d(j) > d(i)
          IN <<m[best]>>

\* a cache that keeps the region layers only
createSegmentLayers(mapData, t) ==
  [layers |-> SelectSeq(mapData.layers, LAMBDA l : l.type = "segment"),
   size |-> mapData.size, pixelSize |-> mapData.pixelSize,
   timestamp |-> t, version |-> mapData.version]

\* valetudo-client.ts, lines 566-574; mapData.version is metaData.version
createCachedLayers(mapData, t) ==
  [layers |-> mapData.layers, size |-> mapData.size, pixelSize |-> mapData.pixelSize,
   timestamp |-> t, version |-> mapData.version]

(***************************************************************************)
(* Consumable helpers.                                                     *)
(***************************************************************************)
\* String.prototype.includes on the sub-types the model feeds in
includes(s, part) ==
  CASE part = "dock" -> s \in {"dock", "detergent dock"}
    [] part = "detergent" -> s \in {"detergent", "detergent dock"}
    [] OTHER -> s = part

concat(type, subType) == <<type, subType>>

getConsumableName(consumable) ==
  LET key == concat(consumable.type, consumable.subType)
  IN IF includes(consumable.subType, "dock") THEN <<"Detergent">>
     ELSE CASE key = <<"brush", "main">> -> <<"Main Brush">>
            [] key = <<"brush", "side_right">> -> <<"Side Brush">>
            [] key = <<"brush", "side_left">> -> <<"Side Brush Left">>
            [] key = <<"filter", "main">> -> <<"Dust Filter">>
            [] key = <<"cleaning", "sensor">> -> <<"Sensor">>
            [] key = <<"cleaning", "wheel">> -> <<"Wheel">>
            [] key = <<"consumable", "detergent">> -> <<"Detergent">>
            [] OTHER -> key

\* maxLifetimes: the configured table, or the defaults of lines 801-806
defaultMaxLifetimes ==
  [mainBrush |-> 18000, sideBrush |-> 12000, dustFilter |-> 9000, sensor |-> 1800]

getMaxLifetime(consumable, maxLifetimes) ==
  IF /\ consumable.value <= 100 /\ consumable.value >= 0
     /\ \/ consumable.type = "consumable"
        \/ includes(consumable.subType, "detergent")
        \/ includes(consumable.subType, "dock")
  THEN 100
  ELSE IF consumable.type = "brush" /\ consumable.subType = "main"
       THEN (IF maxLifetimes.mainBrush # 0 THEN maxLifetimes.mainBrush ELSE 10000)
  ELSE IF consumable.type = "brush" /\ consumable.subType \in {"side_right", "side_left"}
       THEN (IF maxLifetimes.sideBrush # 0 THEN maxLifetimes.sideBrush ELSE 10000)
  ELSE IF consumable.type = "filter" /\ consumable.subType = "main"
       THEN (IF maxLifetimes.dustFilter # 0 THEN maxLifetimes.dustFilter ELSE 10000)
  ELSE IF consumable.type = "cleaning" /\ consumable.subType = "sensor"
       THEN (IF maxLifetimes.sensor # 0 THEN maxLifetimes.sensor ELSE 10000)
  ELSE 10000

lifePercent(consumable, maxLifetimes) ==
  RoundDiv(consumable.value * 100, getMaxLifetime(consumable, maxLifetimes))

(***************************************************************************)
(* The clean-mode catalog (createDeviceForVacuum, lines 460-538;           *)
(* createIntensityVariants, createMopVariants).  A label is a tuple: the   *)
(* label of the mode, then the label of the intensity if the string has    *)
(* one in parentheses.  A list the vendor did not give (null) is <<>>, a   *)
(* list it gave is <<list>>.                                               *)
(***************************************************************************)
VacuumMopQuiet == 5
MopMin == 31
MopLow == 32
MopMedium == 33
MopHigh == 34
VacuumQuiet == 66

\* lines 764-766: || falls back for a name that is not configured ("")
getModeMapping(cfg) ==
  [vacuum |-> IF cfg.vacuum # "" THEN cfg.vacuum ELSE "vacuum",
   mop |-> IF cfg.mop # "" THEN cfg.mop ELSE "mop",
   vacuumAndMop |-> IF cfg.vacuumAndMop # "" THEN cfg.vacuumAndMop ELSE "vacuum_and_mop"]

\* line 1200, on the mode names the model feeds in
modeLabel(baseMode) ==
  CASE baseMode = "vacuum_and_mop" -> "Vacuum & Mop"
    [] baseMode = "vacuum" -> "Vacuum"
    [] baseMode = "mop" -> "Mop"
    [] OTHER -> baseMode

\* lines 1188-1196: <<>> if the preset is not a key of the table
intensityMap(presetLower) ==
  CASE presetLower = "off" -> <<[tag |-> "Min", label |-> "Off", offset |-> 4]>>
    [] presetLower = "min" -> <<[tag |-> "Min", label |-> "Min", offset |-> 4]>>
    [] presetLower = "low" -> <<[tag |-> "Quiet", label |-> "Quiet", offset |-> 2]>>
    [] presetLower = "medium" -> <<[tag |-> "Auto", label |-> "Auto", offset |-> 0]>>
    [] presetLower = "high" -> <<[tag |-> "Quick", label |-> "Quick", offset |-> 1]>>
    [] presetLower = "max" -> <<[tag |-> "Max", label |-> "Max", offset |-> 3]>>
    [] presetLower = "turbo" -> <<[tag |-> "Max", label |-> "Turbo", offset |-> 3]>>
    [] OTHER -> <<>>

Mode(label, mode, modeTags) == [label |-> label, mode |-> mode, modeTags |-> modeTags]

\* a loop that does not look at the offsets it has used
RECURSIVE variantsLoopReusing(_, _, _, _, _)
variantsLoopReusing(baseMode, baseModeNumber, baseTags, presets, usedOffsets) ==
  IF presets = <<>> THEN <<>>
  ELSE LET intensity == intensityMap(toLowerCase(Head(presets)))
       IN IF intensity # <<>>
          THEN <<Mode(<<modeLabel(baseMode), intensity[1].label>>,
                      baseModeNumber + intensity[1].offset,
                      Append(baseTags, intensity[1].tag))>>
               \o variantsLoopReusing(baseMode, baseModeNumber, baseTags, Tail(presets),
                                      usedOffsets)
          ELSE variantsLoopReusing(baseMode, baseModeNumber, baseTags, Tail(presets),
                                   usedOffsets)

\* lines 1211-1225: the loop over the presets
RECURSIVE variantsLoop(_, _, _, _, _)
variantsLoop(baseMode, baseModeNumber, baseTags, presets, usedOffsets) ==
  IF presets = <<>> THEN <<>>
  ELSE LET intensity == intensityMap(toLowerCase(Head(presets)))
       IN IF intensity # <<>> /\ intensity[1].offset \notin usedOffsets
          THEN <<Mode(<<modeLabel(baseMode), intensity[1].label>>,
                      baseModeNumber + intensity[1].offset,
                      Append(baseTags, intensity[1].tag))>>
               \o variantsLoop(baseMode, baseModeNumber, baseTags, Tail(presets),
                               usedOffsets \cup {intensity[1].offset})
          ELSE variantsLoop(baseMode, baseModeNumber, baseTags, Tail(presets), usedOffsets)

\* lines 1179-1236
createIntensityVariants(baseMode, baseModeNumber, baseTags, fanSpeedPresets) ==
  LET plain == <<Mode(<<modeLabel(baseMode)>>, baseModeNumber, Append(baseTags, "Auto"))>>
  IN IF fanSpeedPresets = <<>> \/ fanSpeedPresets[1] = <<>> THEN plain
     ELSE LET modes == variantsLoop(baseMode, baseModeNumber, baseTags,
                                    fanSpeedPresets[1], {})
          IN IF modes = <<>> THEN plain ELSE modes

\* lines 1247-1252
mopConfigs ==
  << [fanPreset |-> "medium", waterPreset |-> "medium", tag |-> "Auto",
      label |-> <<"Mop", "Auto">>, mode |-> MopMin],
     [fanPreset |-> "low", waterPreset |-> "low", tag |-> "Quiet",
      label |-> <<"Mop", "Quiet">>, mode |-> MopLow],
     [fanPreset |-> "high", waterPreset |-> "high", tag |-> "Quick",
      label |-> <<"Mop", "Quick">>, mode |-> MopMedium],
     [fanPreset |-> "max", waterPreset |-> "high", tag |-> "Max",
      label |-> <<"Mop", "Max">>, mode |-> MopHigh] >>

\* lines 1239-1272; the labels of mopConfigs differ, usedLabels drops none
createMopVariants(fanSpeedPresets, waterUsagePresets) ==
  IF fanSpeedPresets = <<>> \/ waterUsagePresets = <<>>
  THEN createIntensityVariants("mop", MopMin, <<"Mop">>, fanSpeedPresets)
  ELSE LET fan == {fanSpeedPresets[1][i] : i \in DOMAIN fanSpeedPresets[1]}
           has == SelectSeq(mopConfigs,
                            LAMBDA c : c.fanPreset \in fan /\ c.waterPreset \in waterUsagePresets[1])
           modes == [i \in DOMAIN has |-> Mode(has[i].label, has[i].mode, <<"Mop", has[i].tag>>)]
       IN IF modes = <<>>
          THEN createIntensityVariants("mop", MopMin, <<"Mop">>, fanSpeedPresets)
          ELSE modes

\* lines 475-516: the entries in the order they are generated
generatedCleanModes(capabilities, operationModes, fanAnswer, waterAnswer, modeMapping) ==
  LET fanSpeedPresets == IF "FanSpeedControlCapability" \in capabilities THEN fanAnswer ELSE <<>>
      waterUsagePresets ==
        IF "WaterUsageControlCapability" \in capabilities THEN waterAnswer ELSE <<>>
  IN IF /\ "OperationModeControlCapability" \in capabilities
        /\ operationModes # <<>> /\ operationModes[1] # {}
     THEN LET offered == operationModes[1]
          IN (IF \/ modeMapping.vacuum \in offered
                 \/ modeMapping.vacuum = "vacuum" /\ "vaccum" \in offered
              THEN createIntensityVariants(modeMapping.vacuum, VacuumQuiet, <<"Vacuum">>,
                                           fanSpeedPresets)
              ELSE <<>>)
             \o (IF modeMapping.mop \in offered
                 THEN createMopVariants(fanSpeedPresets, waterUsagePresets) ELSE <<>>)
             \o (IF modeMapping.vacuumAndMop \in offered
                 THEN createIntensityVariants(modeMapping.vacuumAndMop, VacuumMopQuiet,
                                              <<"Mop", "Vacuum">>, fanSpeedPresets)
                 ELSE <<>>)
     ELSE <<>>

\* a catalog that keeps every entry generated
keepDuplicates(modes) == modes

\* lines 518-529: the first entry of every label
deduplicatedModes(modes) ==
  LET first(i) == \A j \in 1..(i - 1) : modes[j].label # modes[i].label
      RECURSIVE keep(_)
      keep(i) == IF i > Len(modes) THEN <<>>
                 ELSE (IF first(i) THEN <<modes[i]>> ELSE <<>>) \o keep(i + 1)
  IN keep(1)

\* a catalog with no fallback entry
withoutFallback(modes) == modes

\* lines 531-537
withFallback(modes) ==
  IF Len(modes) = 0 THEN <<Mode(<<"Vacuum">>, VacuumQuiet, <<"Vacuum", "Auto">>)>> ELSE modes

\* lines 518-537: the catalog the device is created with
supportedCleanModes(generated) == withFallback(deduplicatedModes(generated))

(***************************************************************************)
(* What the vendor may answer.                                             *)
(***************************************************************************)
\* BatteryStateAttribute records (level in tenths of a percent), <<>> if absent
Battery(level, flag) == <<[level |-> level, flag |-> flag]>>

Batteries ==
  {<<>>, Battery(400, "charging"), Battery(402, "charged"), Battery(500, "charged")}

\* StatusStateAttribute values, undefined if the record is absent
Statuses == {undefined, "docked", "Cleaning"}

\* the answers of GET /api/v2/robot/state/attributes
Snapshots ==
  {[battery |-> b, status |-> st, dockStatus |-> undefined] : b \in Batteries, st \in Statuses}

\* with position tracking or consumable tracking configured the vacuum is
\* followed in a steady state: its attribute stream is one snapshot
SteadySnapshot ==
  [battery |-> Battery(400, "charging"), status |-> "docked", dockStatus |-> undefined]

Dims(x0, x1, y0, y1) ==
  [xmin |-> x0, xmax |-> x1, xmid |-> (x0 + x1) \div 2,
   ymin |-> y0, ymax |-> y1, ymid |-> (y0 + y1) \div 2]

Layer(type, segmentId, dims) ==
  [type |-> type, segmentId |-> segmentId, dimensions |-> dims]

\* the answers of GET /api/v2/robot/state/map, one per map version
MapData(version) ==
  [version |-> version, pixelSize |-> 5, size |-> [x |-> 40, y |-> 20],
   layers |-> IF version = 1
              THEN << Layer("floor", "f", Dims(0, 40, 0, 20)),
                      Layer("segment", "s1", Dims(0, 20, 0, 20)),
                      Layer("segment", "s2", Dims(16, 40, 0, 20)) >>
              ELSE << Layer("segment", "s2", Dims(0, 12, 0, 20)),
                      Layer("segment", "s3", Dims(13, 40, 0, 20)) >>]

MapVersions == {1, 2}

\* robot_position entities (raw points), <<>> if the payload has none
RobotPoints == {<<>>, <<25, 50>>, <<150, 50>>}

\* the answers of getMapPositionData
PositionPayloads ==
  {[version |-> ver, points |-> pts] : ver \in MapVersions, pts \in RobotPoints}

\* the segments of getMapSegments at device creation: none, or two named rooms
SegmentLists == {<<>>, <<"s1", "s2">>}

Consumable(type, subType, value) == [type |-> type, subType |-> subType, value |-> value]

\* the answers of getConsumables
ConsumableLists ==
  {<<>>} \cup {<<Consumable("brush", "main", v)>> : v \in {200, 9000}}

\* the answers of getConsumables of a vacuum with two consumables
ConsumablePairs ==
  {<<Consumable("brush", "main", v), Consumable("filter", "main", w)>> :
     v \in {200, 9000}, w \in {200, 9000}}

(***************************************************************************)
(* State.                                                                  *)
(***************************************************************************)
VARIABLES
  config,        \* the platform configuration (fixed once chosen)
  vacuum,        \* the VacuumInstance record
  startTimeout,  \* the setTimeout of startPollingForVacuum
  cycles,        \* bag of suspended activations of updateVacuumState
  shutdown,      \* onShutdown has completed
  now,           \* Date.now()
  returned,      \* history: <<the activation that returned in the last step, the
                 \* await it returned from and the record before that step>>,
                 \* <<>> if none did
  vacuums,       \* the registry this.vacuums: system id -> record
  adding,        \* bag of suspended activations of addVacuum
  probe          \* a call of findSegmentAtPositionCached: its arguments and result

vars == <<config, vacuum, startTimeout, cycles, shutdown, now, returned, vacuums, adding, probe>>

\* start of the clock: far enough from 0 for the first time checks to pass
StartTime == 2 * ClockStep

\* a configuration: positionTracking.enabled and consumables.enabled as
\* given, the other keys fixed (pollingInterval unset, contact sensors
\* exposed, no warningThreshold, mapCache.refreshIntervalHours 0.1)
Config(positionTracking, consumables) ==
  [pollingInterval |-> 0, positionTracking |-> positionTracking,
   consumables |-> consumables, exposeAsContactSensors |-> TRUE,
   warningThreshold |-> null, refreshIntervalTenthHours |-> 1]

\* lines 311-337 of addVacuum
NewVacuum ==
  [device |-> FALSE, pollingInterval |-> 0,
   areaToSegmentMap |-> <<>>, consumableMap |-> <<>>,
   mapLayersCache |-> <<>>, mapCacheValidUntil |-> 0,
   lastCurrentArea |-> null, lastConsumablesCheck |-> 0,
   lastBatteryLevel |-> null, lastBatteryChargeState |-> null,
   lastOperationalState |-> null, lastRunMode |-> null,
   initialStatePending |-> TRUE, online |-> TRUE]

InitWith(cfg) ==
  /\ config = cfg
  /\ vacuum = NewVacuum
  /\ startTimeout = "unset"
  /\ cycles = EmptyBag
  /\ shutdown = FALSE
  /\ now = StartTime
  /\ returned = <<>>
  /\ vacuums = <<>>
  /\ adding = EmptyBag
  /\ probe = <<>>

\* a vacuum polled for its attributes only
Init == InitWith(Config(FALSE, FALSE))

\* a vacuum with consumables
InitLifecycle == InitWith(Config(FALSE, TRUE))

\* a vacuum with rooms and consumables
InitFull == InitWith(Config(TRUE, TRUE))

\* Math.max(5000, Math.min(60000, config.pollingInterval || 30000))
baseInterval(cfg) ==
  Max(MIN_POLL, Min(MAX_POLL, IF cfg.pollingInterval # 0 THEN cfg.pollingInterval ELSE DEFAULT_POLL))

\* Math.max(0.1, Math.min(24, refreshIntervalHours ?? 1)) * 60 * 60 * 1000
refreshMs(cfg) ==
  Max(1, Min(240, cfg.refreshIntervalTenthHours)) * (DEFAULT_REFRESH_MS \div 10)

\* config.consumables?.warningThreshold ?? 10
setupWarningThreshold(cfg) ==
  IF cfg.warningThreshold = null THEN DEFAULT_WARNING_THRESHOLD ELSE cfg.warningThreshold

\* config.consumables?.warningThreshold || 10
checkWarningThreshold(cfg) ==
  IF cfg.warningThreshold \in {null, 0} THEN DEFAULT_WARNING_THRESHOLD ELSE cfg.warningThreshold

(***************************************************************************)
(* An activation of updateVacuumState.  The first group of fields are the  *)
(* locals that live across an await; the second group is history kept for  *)
(* the properties: the downstream writes issued so far (writes), the gates *)
(* passed while initialStatePending was set (forced), the attributes whose *)
(* comparison with the last-published value, made with the flag clear,     *)
(* found a change (changed), the flag's value when the fetch returned      *)
(* (pendingAtFetch) and, if it was set, the tracked attributes the         *)
(* snapshot has a value for (computed).  History is kept for one           *)
(* activation at a time, the traced one; which one is traced is chosen     *)
(* freely when it starts, so every activation of every run is traced in    *)
(* some run of the model.  The field pace tells what separates the writes  *)
(* of the traced activation: "start" before its first write, "written"     *)
(* after a write, "delayed" once a pacing delay has elapsed since, and     *)
(* "unpaced" for good once a write was issued with no pacing delay since   *)
(* the write before it.  Up to the region lookup, stale tells that the map *)
(* cache was absent or expired when the traced activation entered the      *)
(* position block and that it has not rebuilt the cache since, and version *)
(* is the map version of the position payload it fetched.  lookup          *)
(* describes its call of findSegmentAtPositionCached: expired tells that   *)
(* stale held and the cache was expired at the call, current that the      *)
(* cache had the version of the payload; it is kept until the activation   *)
(* returns or fetches the consumables.                                     *)
(***************************************************************************)
NewCycle(initial, traced) ==
  [pc |-> "getStateAttributes", initial |-> initial, traced |-> traced,
   batChargeState |-> null, chargeStateChanged |-> FALSE,
   status |-> undefined, dockStatus |-> undefined,
   value |-> null, points |-> <<>>, todo |-> <<>>,
   writes |-> <<>>, changed |-> {}, computed |-> {}, forced |-> {},
   pendingAtFetch |-> FALSE, pace |-> "start",
   stale |-> FALSE, version |-> null, lookup |-> <<>>]

\* the result of a run of synchronous code: the record and the activation
R(v, c) == [v |-> v, c |-> c]

\* the activation suspended at another await, its dead locals dropped
At(c, pc) == [c EXCEPT !.pc = pc]

\* history of a comparison with the last-published value
Compare(v, c, attr, isChanged) ==
  IF c.traced /\ ~v.initialStatePending /\ isChanged
  THEN [c EXCEPT !.changed = @ \cup {attr}] ELSE c

\* history of a gate: the flag seen
Gate(v, c, attr) ==
  IF c.traced /\ v.initialStatePending THEN [c EXCEPT !.forced = @ \cup {attr}] ELSE c

\* a call of setAttribute: the activation awaits its result
Write(c, attr, val, pc) ==
  [c EXCEPT !.pc = pc, !.value = val,
            !.writes = IF c.traced THEN Append(@, attr) ELSE @,
            !.pace = IF ~c.traced THEN @
                     ELSE IF @ \in {"written", "unpaced"} THEN "unpaced" ELSE "written"]

\* history of a pacing delay (await new Promise(resolve => setTimeout(resolve, ms)))
Paced(c) == [c EXCEPT !.pace = IF @ = "written" THEN "delayed" ELSE @]

Range(seq) == {seq[i] : i \in 1..Len(seq)}

(***************************************************************************)
(* updateConsumableStatesForVacuum (lines 1074-1132).                      *)
(***************************************************************************)
\* an end of cycle that leaves the online flag alone: C6 depends on the
\* assignment of line 1049
FinishKeepsFlag(v, c) ==
  R(v, [c EXCEPT !.pc = "return", !.value = null, !.todo = <<>>, !.points = <<>>])

\* lines 1048-1049, and the return to the timer callback
Finish(v, c) ==
  R([v EXCEPT !.online = TRUE],
    [c EXCEPT !.pc = "return", !.value = null, !.todo = <<>>, !.points = <<>>])

needsReplacementAtCheck(consumable, cfg) ==
  lifePercent(consumable, defaultMaxLifetimes) <= checkWarningThreshold(cfg)

\* true and false of an entry's lastState
Bool(b) == IF b THEN "true" ELSE "false"

\* line 1118: the status change that is logged
statusChanged(entry, needs) ==
  entry.lastState = undefined \/ entry.lastState # Bool(needs)

\* a check that logs a change and does not remember the state it logged:
\* the signal of C14 fires once only because lastState is assigned
checkEntryForgets(entry, consumable, needs) ==
  [entry EXCEPT !.consumable = consumable,
                !.seen = IF @ # "never" /\ entry.consumable = consumable
                         THEN "same" ELSE "new",
                !.fired = statusChanged(entry, needs)]

\* lines 1114-1122: the entry after a check.  History: seen tells whether
\* this check read the record the check before it read ("same") or not
\* ("new"), fired whether this check logged a status change.
checkEntry(entry, consumable, needs) ==
  [entry EXCEPT !.consumable = consumable,
                !.lastState = IF statusChanged(entry, needs) THEN Bool(needs) ELSE @,
                !.seen = IF @ # "never" /\ entry.consumable = consumable
                         THEN "same" ELSE "new",
                !.fired = statusChanged(entry, needs)]

\* lines 1104-1128: the loop from the head of todo up to its next await
RECURSIVE ConsumablesLoop(_, _, _)
ConsumablesLoop(v, c, cfg) ==
  IF c.todo = <<>> THEN Finish(v, c)
  ELSE LET consumable == Head(c.todo)
           name == getConsumableName(consumable)
           rest == [c EXCEPT !.todo = Tail(@)]
       IN IF name \notin DOMAIN v.consumableMap THEN ConsumablesLoop(v, rest, cfg)
          ELSE LET entry == v.consumableMap[name]
                   needs == needsReplacementAtCheck(consumable, cfg)
                   v2 == [v EXCEPT !.consumableMap[name] = checkEntry(entry, consumable, needs)]
               IN IF entry.endpoint
                  THEN R(v2, Write(rest, "stateValue", IF needs THEN 0 ELSE 1, "setStateValue"))
                  ELSE ConsumablesLoop(v2, rest, cfg)

\* a check with no time gate: C16 depends on the test of lines 1079-1081
ConsumablesStageUngated(v, c, t) ==
  IF DOMAIN v.consumableMap = {} THEN Finish(v, c)
  ELSE R([v EXCEPT !.lastConsumablesCheck = t], At([c EXCEPT !.lookup = <<>>], "getConsumables"))

\* lines 1044-1046 and 1076-1101: the time gate, then the fetch
ConsumablesStage(v, c, t) ==
  IF DOMAIN v.consumableMap = {} THEN Finish(v, c)
  ELSE IF t - v.lastConsumablesCheck < CONSUMABLES_CHECK_INTERVAL THEN Finish(v, c)
  ELSE R([v EXCEPT !.lastConsumablesCheck = t], At([c EXCEPT !.lookup = <<>>], "getConsumables"))

(***************************************************************************)
(* Position tracking of updateVacuumState (lines 988-1041).                *)
(***************************************************************************)
\* lines 1020-1026: the first area of the map whose segment is the one found
foundAreaId(v, segmentId) ==
  LET hits == {a \in DOMAIN v.areaToSegmentMap : v.areaToSegmentMap[a] = segmentId}
  IN IF hits = {} THEN null ELSE CHOOSE a \in hits : \A b \in hits : a <= b

\* a lookup that publishes the area it finds, new or not
LookupRepublishes(v, c, points, t) ==
  IF Len(points) >= 2 /\ v.mapLayersCache # <<>>
  THEN LET cache == v.mapLayersCache[1]
           x == RoundDiv(points[1], cache.pixelSize)
           y == RoundDiv(points[2], cache.pixelSize)
           currentSegment == findSegmentAtPositionCached(cache, x, y)
           area == IF currentSegment = <<>> THEN null
                   ELSE foundAreaId(v, currentSegment[1].segmentId)
           looked == [c EXCEPT !.points = <<>>, !.stale = FALSE, !.version = null,
                               !.lookup = IF ~c.traced THEN @
                                          ELSE <<[expired |-> c.stale /\ t > v.mapCacheValidUntil,
                                                  current |-> cache.version = c.version]>>]
       IN IF area # null
          THEN R(v, Write(looked, "currentArea", area, "setCurrentArea"))
          ELSE ConsumablesStage(v, looked, t)
  ELSE ConsumablesStage(v, [c EXCEPT !.points = <<>>, !.stale = FALSE, !.version = null], t)

\* lines 1009-1035
Lookup(v, c, points, t) ==
  IF Len(points) >= 2 /\ v.mapLayersCache # <<>>
  THEN LET cache == v.mapLayersCache[1]
           x == RoundDiv(points[1], cache.pixelSize)
           y == RoundDiv(points[2], cache.pixelSize)
           currentSegment == findSegmentAtPositionCached(cache, x, y)
           area == IF currentSegment = <<>> THEN null
                   ELSE foundAreaId(v, currentSegment[1].segmentId)
           looked == [c EXCEPT !.points = <<>>, !.stale = FALSE, !.version = null,
                               !.lookup = IF ~c.traced THEN @
                                          ELSE <<[expired |-> c.stale /\ t > v.mapCacheValidUntil,
                                                  current |-> cache.version = c.version]>>]
       IN IF area # null /\ v.lastCurrentArea # area
          THEN R(v, Write(looked, "currentArea", area, "setCurrentArea"))
          ELSE ConsumablesStage(v, looked, t)
  ELSE ConsumablesStage(v, [c EXCEPT !.points = <<>>, !.stale = FALSE, !.version = null], t)

\* lines 1002-1007: the payload is there; a new map version refreshes the cache
PositionFetched(v, c, payload, t) ==
  LET got == [c EXCEPT !.version = IF c.traced THEN payload.version ELSE @]
  IN IF payload.version # v.mapLayersCache[1].version
     THEN R(v, [got EXCEPT !.pc = "getMapData2", !.points = payload.points])
     ELSE Lookup(v, got, payload.points, t)

\* lines 1062-1068 of refreshMapCacheForVacuum, after the fetch
refreshMapCacheForVacuum(v, cfg, mapData, t) ==
  IF mapData # <<>>
  THEN [v EXCEPT !.mapLayersCache = <<createCachedLayers(mapData[1], t)>>,
                 !.mapCacheValidUntil = t + refreshMs(cfg)]
  ELSE v

\* lines 997-1001
AfterFirstRefresh(v, c, t) ==
  IF v.mapLayersCache = <<>> THEN ConsumablesStage(v, [c EXCEPT !.stale = FALSE], t)
  ELSE R(v, At(c, "getMapPositionData"))

\* a position step that rebuilds the cache in every cycle
PositionStageRebuilds(v, c, cfg, t) ==
  IF cfg.positionTracking /\ DOMAIN v.areaToSegmentMap # {}
  THEN R(v, At([c EXCEPT !.stale = c.traced], "getMapData1"))
  ELSE ConsumablesStage(v, c, t)

\* lines 989-995
PositionStage(v, c, cfg, t) ==
  IF cfg.positionTracking /\ DOMAIN v.areaToSegmentMap # {}
  THEN IF v.mapLayersCache = <<>> \/ t > v.mapCacheValidUntil
       THEN R(v, At([c EXCEPT !.stale = c.traced], "getMapData1"))
       ELSE R(v, At(c, "getMapPositionData"))
  ELSE ConsumablesStage(v, c, t)

(***************************************************************************)
(* The attribute pass of updateVacuumState (lines 914-986).                *)
(***************************************************************************)
\* lines 979-986
EndOfAttributePass(v, c) ==
  R([v EXCEPT !.initialStatePending = FALSE],
    [c EXCEPT !.pc = "delay500", !.status = undefined, !.dockStatus = undefined,
              !.value = null])

\* a run-mode block that publishes the charge state in place of the run
\* mode: the order of C10 depends on what each block of the pass writes
RunModeGateWritesCharge(v, c) ==
  LET runMode == mapValetudoStatusToRunMode(c.status)
      runModeChanged == v.lastRunMode # runMode
      g == Gate(v, Compare(v, c, "currentMode", runModeChanged), "currentMode")
  IN IF v.initialStatePending \/ runModeChanged
     THEN R(v, Write(g, "batChargeState", runMode, "setCurrentMode"))
     ELSE EndOfAttributePass(v, g)

\* a run-mode gate that is always open: the change gating of C1 depends on
\* the comparison of line 969
RunModeGateOpen(v, c) ==
  R(v, Write(Gate(v, c, "currentMode"), "currentMode",
             mapValetudoStatusToRunMode(c.status), "setCurrentMode"))

\* lines 967-976
RunModeGate(v, c) ==
  LET runMode == mapValetudoStatusToRunMode(c.status)
      runModeChanged == v.lastRunMode # runMode
      g == Gate(v, Compare(v, c, "currentMode", runModeChanged), "currentMode")
  IN IF v.initialStatePending \/ runModeChanged
     THEN R(v, Write(g, "currentMode", runMode, "setCurrentMode"))
     ELSE EndOfAttributePass(v, g)

\* a status stage that writes the operational state on change only: the
\* initial-state override of C2 depends on the flag in the gate of line 960
StatusStageOnChange(v, c) ==
  IF c.status # undefined
  THEN LET operationalState == mapValetudoStatusToOperationalState(c.status, c.dockStatus)
           g == Gate(v, c, "operationalState")
       IN IF v.lastOperationalState # operationalState
          THEN R(v, Write(g, "operationalState", operationalState, "setOperationalState"))
          ELSE RunModeGate(v, g)
  ELSE EndOfAttributePass(v, c)

\* lines 950-965
StatusStage(v, c) ==
  IF c.status # undefined
  THEN LET operationalState == mapValetudoStatusToOperationalState(c.status, c.dockStatus)
           operationalStateChanged == v.lastOperationalState # operationalState
           g == Gate(v, Compare(v, c, "operationalState", operationalStateChanged),
                     "operationalState")
       IN IF v.initialStatePending \/ operationalStateChanged
          THEN R(v, Write(g, "operationalState", operationalState, "setOperationalState"))
          ELSE RunModeGate(v, g)
  ELSE EndOfAttributePass(v, c)

\* lines 939-948
ChargeStateGate(v, c) ==
  LET g == Gate(v, c, "batChargeState")
  IN IF v.initialStatePending \/ c.chargeStateChanged
     THEN R(v, Write(g, "batChargeState", c.batChargeState, "setBatChargeState"))
     ELSE R(v, [g EXCEPT !.pc = "delay200", !.batChargeState = null,
                         !.chargeStateChanged = FALSE, !.value = null])

\* the tracked attributes a snapshot has a value for
Computed(snapshot) ==
  (IF snapshot.battery # <<>> THEN {"batPercentRemaining", "batChargeState"} ELSE {})
  \cup (IF snapshot.status # undefined THEN {"operationalState", "currentMode"} ELSE {})

\* lines 914-937: the snapshot is there
BatteryStage(v, c0, snapshot) ==
  LET c == [c0 EXCEPT !.status = snapshot.status, !.dockStatus = snapshot.dockStatus,
                      !.pendingAtFetch = c0.traced /\ v.initialStatePending,
                      !.computed =
                         IF c0.traced /\ v.initialStatePending
                         THEN Computed(snapshot) ELSE {}]
  IN IF snapshot.battery # <<>>
     THEN LET battery == snapshot.battery[1]
              percent == batPercentRemaining(battery.level)
              charge == batChargeState(battery.flag)
              batteryChanged == v.lastBatteryLevel # percent
              chargeStateChanged == v.lastBatteryChargeState # charge
              compared == Compare(v, Compare(v, c, "batPercentRemaining", batteryChanged),
                                  "batChargeState", chargeStateChanged)
              g == [Gate(v, compared, "batPercentRemaining")
                      EXCEPT !.batChargeState = charge,
                             !.chargeStateChanged = chargeStateChanged]
          IN IF v.initialStatePending \/ batteryChanged
             THEN R(v, Write(g, "batPercentRemaining", percent, "setBatPercentRemaining"))
             ELSE ChargeStateGate(v, g)
     ELSE R(v, At(c, "delay200"))

\* a failed fetch that stops the polling timer: C8 depends on the timer
\* being left alone by line 911
FetchFailedStopsPolling(v, c) == R([v EXCEPT !.pollingInterval = 0], At(c, "return"))

\* a failed fetch that also gives up the initial publication: the frame of
\* C7 depends on the bare return of line 911
FetchFailedClearsPending(v, c) ==
  R([v EXCEPT !.initialStatePending = FALSE], At(c, "return"))

\* lines 909-912: no attributes, the activation returns
FetchFailed(v, c) == R(v, At(c, "return"))

\* a catch block that also gives up the initial publication
CatchBlockClearsPending(v, c) ==
  R([v EXCEPT !.online = FALSE, !.initialStatePending = FALSE], At(c, "return"))

\* lines 1050-1053
CatchBlock(v, c) == R([v EXCEPT !.online = FALSE], At(c, "return"))

(***************************************************************************)
(* Device creation (initializeVacuum, lines 351-373).                      *)
(***************************************************************************)
\* lines 850-897; snapshot <<>> is a failed fetch, throwAt the number of the
\* setAttribute call that throws (0: none does)
setInitialVacuumState(v, snapshot, throwAt) ==
  IF snapshot = <<>> THEN v
  ELSE LET s == snapshot[1]
           hasBattery == s.battery # <<>>
           batteryOk == hasBattery /\ throwAt \notin {1, 2}
           first == IF hasBattery THEN 3 ELSE 1
           statusReached == (~hasBattery \/ batteryOk) /\ s.status # undefined
           opOk == statusReached /\ throwAt # first
           runOk == opOk /\ throwAt # first + 1
           v1 == IF batteryOk
                 THEN [v EXCEPT !.lastBatteryLevel = batPercentRemaining(s.battery[1].level),
                                !.lastBatteryChargeState = batChargeState(s.battery[1].flag)]
                 ELSE v
           v2 == IF opOk
                 THEN [v1 EXCEPT !.lastOperationalState =
                          mapValetudoStatusToOperationalState(s.status, s.dockStatus)]
                 ELSE v1
       IN IF runOk THEN [v2 EXCEPT !.lastRunMode = mapValetudoStatusToRunMode(s.status)]
          ELSE v2

\* what the vendor answers to an attribute fetch, at device creation and in
\* a poll
VendorSnapshots(cfg) ==
  IF cfg.positionTracking \/ cfg.consumables THEN {SteadySnapshot} ELSE Snapshots

\* the room list the vendor reports at device creation (lines 407-409);
\* rooms are read by the position step only, so a vacuum without position
\* the consumables the vendor reports: a worn main brush at most for a vacuum
\* with rooms, up to a brush and a filter for one without
VendorConsumables(cfg) ==
  IF cfg.positionTracking THEN {<<>>, <<Consumable("brush", "main", 200)>>}
  ELSE ConsumableLists \cup ConsumablePairs

\* tracking is followed without rooms
VendorSegments(cfg) == IF cfg.positionTracking THEN SegmentLists ELSE {<<>>}

needsReplacementAtSetup(consumable, cfg) ==
  lifePercent(consumable, defaultMaxLifetimes) <= setupWarningThreshold(cfg)

\* lines 783-840
setupConsumablesForVacuum(v, cfg, consumables) ==
  IF ~cfg.consumables \/ consumables = <<>> THEN v
  ELSE [v EXCEPT !.consumableMap =
          [name \in {getConsumableName(consumables[i]) : i \in 1..Len(consumables)} |->
             LET last == CHOOSE i \in 1..Len(consumables) :
                           /\ getConsumableName(consumables[i]) = name
                           /\ \A j \in (i + 1)..Len(consumables) :
                                getConsumableName(consumables[j]) # name
                 consumable == consumables[last]
             IN [endpoint |-> cfg.exposeAsContactSensors,
                 consumable |-> consumable,
                 lastState |-> IF ~cfg.exposeAsContactSensors THEN undefined
                               ELSE IF needsReplacementAtSetup(consumable, cfg)
                                    THEN "true" ELSE "false",
                 seen |-> "never", fired |-> FALSE]]]

\* lines 407-428: area ids 1..n for the named segments
areaToSegmentMap(segments) == [i \in 1..Len(segments) |-> segments[i]]

initializeVacuum ==
  /\ startTimeout = "unset"
  /\ \/ \* createDeviceForVacuum throws: no device, no polling
        /\ vacuum' = [vacuum EXCEPT !.online = FALSE]
        /\ startTimeout' = "none"
     \/ \E segments \in VendorSegments(config), consumables \in VendorConsumables(config),
           snapshot \in {<<>>} \cup {<<s>> : s \in VendorSnapshots(config)},
           throwAt \in 0..4 :
          /\ vacuum' = setupConsumablesForVacuum(
                         setInitialVacuumState(
                           [vacuum EXCEPT !.device = TRUE,
                                          !.areaToSegmentMap = areaToSegmentMap(segments)],
                           snapshot, throwAt),
                         config, consumables)
          \* startPollingForVacuum: the timeout is armed
          /\ startTimeout' = "armed"
  /\ returned' = <<>>
  /\ UNCHANGED <<config, cycles, shutdown, now, vacuums, adding, probe>>

(***************************************************************************)
(* Timers and shutdown.                                                    *)
(***************************************************************************)
\* an activation may be traced if no traced one is suspended
MayTrace(traced) == traced => \A c \in BagToSet(cycles) : ~c.traced

\* updateVacuumState up to its first await (lines 903-908)
updateVacuumState(initial, traced) ==
  IF vacuum.device THEN cycles (+) SetToBag({NewCycle(initial, traced)}) ELSE cycles

\* the callback of setTimeout (lines 612-616) starts the initial poll
Timeout(traces) ==
  /\ startTimeout = "armed"
  /\ startTimeout' = "fired"
  /\ \E traced \in traces : cycles' = updateVacuumState(TRUE, traced)
  /\ returned' = <<>>
  /\ UNCHANGED <<config, vacuum, shutdown, now, vacuums, adding, probe>>

StartupTimeout == Timeout(BOOLEAN)

\* the callback of setInterval (lines 622-629): it fires every baseInterval
\* whether or not an earlier activation has returned
Tick(traces) ==
  /\ vacuum.pollingInterval # 0
  /\ BagCardinality(cycles) < MaxInFlight
  /\ \E traced \in traces : MayTrace(traced) /\ cycles' = updateVacuumState(FALSE, traced)
  /\ returned' = <<>>
  /\ UNCHANGED <<config, vacuum, startTimeout, shutdown, now, vacuums, adding, probe>>

IntervalTick == Tick(BOOLEAN)

\* lines 168-177; line 177 clears the registry
onShutdown ==
  /\ ~shutdown
  /\ shutdown' = TRUE
  /\ vacuum' = [vacuum EXCEPT !.pollingInterval = 0]
  /\ returned' = <<>>
  /\ vacuums' = <<>>
  /\ UNCHANGED <<config, startTimeout, cycles, now, adding, probe>>

\* time passes; only the position and consumable steps read the clock
Advance ==
  /\ now < StartTime + MaxClockSteps * ClockStep
  /\ config.positionTracking \/ config.consumables
  /\ now' = now + ClockStep
  /\ returned' = <<>>
  /\ UNCHANGED <<config, vacuum, startTimeout, cycles, shutdown, vacuums, adding, probe>>

(***************************************************************************)
(* The steps of an activation: an awaited promise settles and the code     *)
(* runs to the next await.                                                 *)
(***************************************************************************)
\* lines 616-622: when the initial poll returns, the interval is started
ResumeWith(c, r) ==
  /\ vacuum' = IF r.c.pc = "return" /\ c.initial
               THEN [r.v EXCEPT !.pollingInterval = baseInterval(config)]
               ELSE r.v
  /\ cycles' = IF r.c.pc = "return"
               THEN cycles (-) SetToBag({c})
               ELSE (cycles (-) SetToBag({c})) (+) SetToBag({r.c})
  /\ returned' = IF r.c.pc = "return"
                 THEN <<[from |-> c.pc, cycle |-> r.c, before |-> vacuum]>>
                 ELSE <<>>
  /\ UNCHANGED <<config, startTimeout, shutdown, now, vacuums, adding>>

Resume(c, r) == ResumeWith(c, r) /\ UNCHANGED probe

Suspended(pcs) == {c \in BagToSet(cycles) : c.pc \in pcs}

TrackedWrites ==
  {"setBatPercentRemaining", "setBatChargeState", "setOperationalState", "setCurrentMode"}

StateAttributesFetched ==
  \E c \in Suspended({"getStateAttributes"}), snapshot \in VendorSnapshots(config) :
    Resume(c, BatteryStage(vacuum, c, snapshot))

StateAttributesFailed ==
  \E c \in Suspended({"getStateAttributes"}) : Resume(c, FetchFailed(vacuum, c))

\* the code after an awaited setAttribute that returned
AfterWrite(v, c, cfg, t) ==
  CASE c.pc = "setBatPercentRemaining" ->
         R([v EXCEPT !.lastBatteryLevel = c.value], [c EXCEPT !.pc = "delayBat", !.value = null])
    [] c.pc = "setBatChargeState" ->
         R([v EXCEPT !.lastBatteryChargeState = c.value],
           [c EXCEPT !.pc = "delayChg", !.value = null, !.batChargeState = null,
                     !.chargeStateChanged = FALSE])
    [] c.pc = "setOperationalState" ->
         R([v EXCEPT !.lastOperationalState = c.value], [c EXCEPT !.pc = "delayOp", !.value = null])
    [] c.pc = "setCurrentMode" ->
         R([v EXCEPT !.lastRunMode = c.value], [c EXCEPT !.pc = "delayRun", !.value = null])
    [] c.pc = "setCurrentArea" ->
         ConsumablesStage([v EXCEPT !.lastCurrentArea = c.value], [c EXCEPT !.value = null], t)
    [] c.pc = "setStateValue" ->
         ConsumablesLoop(v, [c EXCEPT !.value = null], cfg)

SetAttributeReturned ==
  \E c \in Suspended(TrackedWrites \cup {"setCurrentArea", "setStateValue"}) :
    Resume(c, AfterWrite(vacuum, c, config, now))

\* a region write whose throw reaches the outer catch: the fail-soft
\* behaviour of C9 depends on the inner try of lines 990-1041
AfterThrowNoInnerTry(v, c, t) ==
  CASE c.pc \in TrackedWrites \cup {"setCurrentArea"} ->
         R(v, [c EXCEPT !.pc = "catch", !.value = null,
                        !.batChargeState = null, !.chargeStateChanged = FALSE,
                        !.status = undefined, !.dockStatus = undefined])
    [] c.pc = "setStateValue" -> Finish(v, c)

\* the code that runs when an awaited setAttribute throws
AfterThrow(v, c, t) ==
  CASE c.pc \in TrackedWrites -> R(v, [c EXCEPT !.pc = "catch", !.value = null,
                                          !.batChargeState = null, !.chargeStateChanged = FALSE,
                                          !.status = undefined, !.dockStatus = undefined])
    [] c.pc = "setCurrentArea" -> ConsumablesStage(v, [c EXCEPT !.value = null], t)
    [] c.pc = "setStateValue" -> Finish(v, c)

SetAttributeThrew ==
  \E c \in Suspended(TrackedWrites \cup {"setCurrentArea", "setStateValue"}) :
    Resume(c, AfterThrow(vacuum, c, now))

Caught ==
  \E c \in Suspended({"catch"}) : Resume(c, CatchBlock(vacuum, c))

\* the code after a pacing delay
AfterDelay(v, c, cfg, t) ==
  CASE c.pc = "delayBat" -> ChargeStateGate(v, c)
    [] c.pc = "delayChg" -> R(v, At(c, "delay200"))
    [] c.pc = "delay200" -> StatusStage(v, c)
    [] c.pc = "delayOp" -> RunModeGate(v, c)
    [] c.pc = "delayRun" -> EndOfAttributePass(v, c)
    [] c.pc = "delay500" -> PositionStage(v, c, cfg, t)

DelayElapsed ==
  \E c \in Suspended({"delayBat", "delayChg", "delay200", "delayOp", "delayRun", "delay500"}) :
    Resume(c, AfterDelay(vacuum, Paced(c), config, now))

\* the code after refreshMapCacheForVacuum (mapData <<>>: the fetch failed)
AfterRefresh(v, c, cfg, mapData, t) ==
  LET v2 == refreshMapCacheForVacuum(v, cfg, mapData, t)
      c2 == [c EXCEPT !.stale = @ /\ mapData = <<>>]
  IN IF c.pc = "getMapData1" THEN AfterFirstRefresh(v2, c2, t)
     ELSE Lookup(v2, c2, c.points, t)

MapDataFetched ==
  \E c \in Suspended({"getMapData1", "getMapData2"}), version \in MapVersions :
    Resume(c, AfterRefresh(vacuum, c, config, <<MapData(version)>>, now))

MapDataFailed ==
  \E c \in Suspended({"getMapData1", "getMapData2"}) :
    Resume(c, AfterRefresh(vacuum, c, config, <<>>, now))

PositionDataFetched ==
  \E c \in Suspended({"getMapPositionData"}), payload \in PositionPayloads :
    Resume(c, PositionFetched(vacuum, c, payload, now))

\* line 1002: no payload, nothing is looked up
PositionDataFailed ==
  \E c \in Suspended({"getMapPositionData"}) :
    Resume(c, ConsumablesStage(vacuum, [c EXCEPT !.stale = FALSE], now))

ConsumablesFetched ==
  \E c \in Suspended({"getConsumables"}), consumables \in VendorConsumables(config) :
    Resume(c, ConsumablesLoop(vacuum, [c EXCEPT !.todo = consumables], config))

\* line 1102
ConsumablesFailed ==
  \E c \in Suspended({"getConsumables"}) : Resume(c, Finish(vacuum, c))

\* The running platform.  Without position and consumable tracking an
\* activation never suspends at a map, position or consumable fetch, and
\* nothing reads the clock.
Next ==
  \/ initializeVacuum
  \/ StartupTimeout
  \/ IntervalTick
  \/ StateAttributesFetched
  \/ StateAttributesFailed
  \/ SetAttributeReturned
  \/ SetAttributeThrew
  \/ Caught
  \/ DelayElapsed

Spec == Init /\ [][Next]_vars

\* with consumable tracking only, from start to shutdown
NextLifecycle ==
  \/ Next
  \/ onShutdown
  \/ Advance
  \/ ConsumablesFetched
  \/ ConsumablesFailed

SpecLifecycle == InitLifecycle /\ [][NextLifecycle]_vars

\* the running platform with position and consumable tracking
NextFull ==
  \/ Next
  \/ Advance
  \/ MapDataFetched
  \/ MapDataFailed
  \/ PositionDataFetched
  \/ PositionDataFailed
  \/ ConsumablesFetched
  \/ ConsumablesFailed

SpecFull == InitFull /\ [][NextFull]_vars

(***************************************************************************)
(* SpecSink: the platform of Spec together with what the downstream sink   *)
(* holds.  setAttribute of the bridge resolves to true when it has set the *)
(* attribute and to false when it has not (the endpoint is not active, the *)
(* cluster or the attribute is not there); updateVacuumState awaits it and *)
(* does not read what it resolves to (lines 934, 941, 961, 972).  probe is *)
(* the value the sink holds for each tracked attribute.  The device was    *)
(* created when the vendor did not answer setInitialVacuumState (line 856):*)
(* nothing is written yet and polling is about to start.                   *)
(***************************************************************************)
attributeWritten(pc) ==
  CASE pc = "setBatPercentRemaining" -> "batPercentRemaining"
    [] pc = "setBatChargeState" -> "batChargeState"
    [] pc = "setOperationalState" -> "operationalState"
    [] pc = "setCurrentMode" -> "currentMode"

InitSink ==
  /\ config = Config(FALSE, FALSE)
  /\ vacuum = setInitialVacuumState([NewVacuum EXCEPT !.device = TRUE], <<>>, 0)
  /\ startTimeout = "armed"
  /\ cycles = EmptyBag
  /\ shutdown = FALSE
  /\ now = StartTime
  /\ returned = <<>>
  /\ vacuums = <<>>
  /\ adding = EmptyBag
  /\ probe = [attribute \in {attributeWritten(pc) : pc \in TrackedWrites} |-> null]

\* the vendor's answers while the sink is followed: the vacuum is charging at
\* its dock, or it is cleaning
SinkSnapshots ==
  {[battery |-> Battery(400, "charging"), status |-> "docked", dockStatus |-> undefined],
   [battery |-> Battery(500, "charged"), status |-> "Cleaning", dockStatus |-> undefined]}

SinkAttributesFetched ==
  \E c \in Suspended({"getStateAttributes"}), snapshot \in SinkSnapshots :
    Resume(c, BatteryStage(vacuum, c, snapshot))

\* setAttribute resolved to true: the sink holds the value
SetAttributeSucceeded ==
  \E c \in Suspended(TrackedWrites) :
    /\ ResumeWith(c, AfterWrite(vacuum, c, config, now))
    /\ probe' = [probe EXCEPT ![attributeWritten(c.pc)] = c.value]

\* setAttribute resolved to false: the sink holds what it held
SetAttributeFailed ==
  \E c \in Suspended(TrackedWrites) :
    /\ ResumeWith(c, AfterWrite(vacuum, c, config, now))
    /\ probe' = probe

\* no activation is traced: the sink is the history
NextSink ==
  \/ Timeout({FALSE})
  \/ Tick({FALSE})
  \/ SinkAttributesFetched
  \/ StateAttributesFailed
  \/ SetAttributeSucceeded
  \/ SetAttributeFailed
  \/ SetAttributeThrew
  \/ Caught
  \/ DelayElapsed

SpecSink == InitSink /\ [][NextSink]_vars

(***************************************************************************)
(* The registry (addVacuum, lines 258-346).  An activation of addVacuum is *)
(* a record of the bag `adding`.  Periodic discovery calls addVacuum from  *)
(* the async callback of a setInterval (lines 1415-1418), which does not   *)
(* wait for the run before it: activations may overlap.  A record of the   *)
(* registry has the fields of NewVacuum and those of RegistryFields; its    *)
(* name, which addVacuum sets once, is left out.                           *)
(***************************************************************************)
\* addresses a vacuum may be found at, and system ids it may report
Ips == {"10.0.0.1", "10.0.0.2"}
SystemIds == {"id1", "id2"}
Sources == {"manual", "mdns"}

\* new ValetudoClient(ip, log)
ValetudoClient(ip) == [baseUrl |-> ip]

\* lines 311-337: the record addVacuum creates
RegistryFields(id, ip, client, source, t) ==
  [id |-> id, ip |-> ip, client |-> client, source |-> source, lastSeen |-> t]

NewRecord(id, ip, client, source, t) == RegistryFields(id, ip, client, source, t) @@ NewVacuum

\* a duplicate that replaces the record by a new one
replaceExisting(existing, ip, client, t) ==
  NewRecord(existing.id, ip, client, existing.source, t)

\* lines 287-289: the record of a system id found at another address
updateExisting(existing, ip, client, t) ==
  [existing EXCEPT !.ip = ip, !.client = client, !.lastSeen = t]

\* lines 351-373 for a record of the registry: createDeviceForVacuum throws,
\* or the device is created and setInitialVacuumState publishes what the
\* vendor answers
initializeRecord(record, created, snapshot, throwAt) ==
  IF ~created THEN [record EXCEPT !.online = FALSE]
  ELSE setInitialVacuumState([record EXCEPT !.device = TRUE], snapshot, throwAt)

NewAdd(ip, source) ==
  [pc |-> "testConnection", ip |-> ip, source |-> source, id |-> undefined, replaced |-> FALSE]

AddingAt(pcs) == {a \in BagToSet(adding) : a.pc \in pcs}

\* the activation a goes on as b, or ends if b is <<>>
AddStep(a, b) ==
  adding' = IF b = <<>> THEN adding (-) SetToBag({a})
            ELSE (adding (-) SetToBag({a})) (+) SetToBag({b[1]})

\* lines 200 and 233-239: a configured vacuum is added; a discovered one is
\* added unless a record has its address
addVacuum ==
  /\ BagCardinality(adding) < MaxAdding
  /\ \E ip \in Ips, source \in Sources :
       /\ source = "mdns" => \A id \in DOMAIN vacuums : vacuums[id].ip # ip
       /\ adding' = adding (+) SetToBag({NewAdd(ip, source)})
  /\ returned' = <<>>
  /\ UNCHANGED <<config, vacuum, startTimeout, cycles, shutdown, now, vacuums, probe>>

\* lines 265-271: testConnection settles; the delay of 300 ms follows
ConnectionTested ==
  /\ \E a \in AddingAt({"testConnection"}), isConnected \in BOOLEAN :
       AddStep(a, IF isConnected THEN <<[a EXCEPT !.pc = "getInfo"]>> ELSE <<>>)
  /\ returned' = <<>>
  /\ UNCHANGED <<config, vacuum, startTimeout, cycles, shutdown, now, vacuums, probe>>

\* lines 274-280: getInfo settles; the second delay is awaited
InfoFetched ==
  /\ \E a \in AddingAt({"getInfo"}), info \in {<<>>} \cup {<<id>> : id \in SystemIds} :
       AddStep(a, IF info = <<>> THEN <<>>
                  ELSE <<[a EXCEPT !.pc = "delay", !.id = info[1]]>>)
  /\ returned' = <<>>
  /\ UNCHANGED <<config, vacuum, startTimeout, cycles, shutdown, now, vacuums, probe>>

\* lines 282-298: the duplicate check
DuplicateChecked ==
  /\ \E a \in AddingAt({"delay"}) :
       IF a.id \in DOMAIN vacuums
       THEN /\ vacuums' = IF vacuums[a.id].ip # a.ip
                          THEN [vacuums EXCEPT ![a.id] =
                                  updateExisting(@, a.ip, ValetudoClient(a.ip), now)]
                          ELSE vacuums
            /\ AddStep(a, <<>>)
            /\ returned' = <<[from |-> a.pc, cycle |-> a, before |-> vacuums]>>
       ELSE /\ AddStep(a, <<[a EXCEPT !.pc = "getRobotInfo"]>>)
            /\ returned' = <<>>
            /\ UNCHANGED vacuums
  /\ UNCHANGED <<config, vacuum, startTimeout, cycles, shutdown, now, probe>>

\* lines 298-346: getRobotInfo settles; the record is created and stored,
\* and initializeVacuum is awaited.  An activation that initializes a record
\* of the same id is told that its record is no longer the registered one.
RobotInfoFetched ==
  /\ \E a \in AddingAt({"getRobotInfo"}), robotInfo \in BOOLEAN :
       IF ~robotInfo
       THEN AddStep(a, <<>>) /\ UNCHANGED vacuums
       ELSE /\ vacuums' = [id \in DOMAIN vacuums \cup {a.id} |->
                             IF id = a.id
                             THEN NewRecord(a.id, a.ip, ValetudoClient(a.ip), a.source, now)
                             ELSE vacuums[id]]
            /\ LET others == adding (-) SetToBag({a})
                   replaced(b) == IF b.pc = "initializeVacuum" /\ b.id = a.id
                                  THEN [b EXCEPT !.replaced = TRUE] ELSE b
               IN adding' = BagOfAll(replaced, others)
                              (+) SetToBag({[a EXCEPT !.pc = "initializeVacuum"]})
  /\ returned' = <<>>
  /\ UNCHANGED <<config, vacuum, startTimeout, cycles, shutdown, now, probe>>

\* lines 345 and 351-373: initializeVacuum has worked on the record the
\* activation created
Initialized ==
  /\ \E a \in AddingAt({"initializeVacuum"}), created \in BOOLEAN,
        snapshot \in {<<>>, <<SteadySnapshot>>} :
       /\ vacuums' = IF a.replaced \/ a.id \notin DOMAIN vacuums THEN vacuums
                     ELSE [vacuums EXCEPT ![a.id] =
                             initializeRecord(@, created, snapshot, 0)]
       /\ AddStep(a, <<>>)
  /\ returned' = <<>>
  /\ UNCHANGED <<config, vacuum, startTimeout, cycles, shutdown, now, probe>>

NextRegistry ==
  \/ addVacuum
  \/ ConnectionTested
  \/ InfoFetched
  \/ DuplicateChecked
  \/ RobotInfoFetched
  \/ Initialized
  \/ Advance

SpecRegistry == InitLifecycle /\ [][NextRegistry]_vars

(***************************************************************************)
(* The polled record as a record of the registry: while it is polled, a    *)
(* discovery that finds its system id at another address updates it.       *)
(***************************************************************************)
InitRegistered ==
  /\ config = Config(FALSE, FALSE)
  /\ vacuum = NewRecord("id1", "10.0.0.1", ValetudoClient("10.0.0.1"), "mdns", StartTime)
  /\ startTimeout = "unset"
  /\ cycles = EmptyBag
  /\ shutdown = FALSE
  /\ now = StartTime
  /\ returned = <<>>
  /\ vacuums = <<>>
  /\ adding = EmptyBag
  /\ probe = <<>>

\* lines 283-296 for the record that is polled
addressUpdated ==
  /\ \E ip \in Ips :
       /\ vacuum.ip # ip
       /\ vacuum' = updateExisting(vacuum, ip, ValetudoClient(ip), now)
  /\ returned' = <<>>
  /\ UNCHANGED <<config, startTimeout, cycles, shutdown, now, vacuums, adding, probe>>

NextRegistered ==
  \/ Next
  \/ addressUpdated

SpecRegistered == InitRegistered /\ [][NextRegistered]_vars

(***************************************************************************)
(* Calls of findSegmentAtPositionCached (valetudo-client.ts, 527-558) on   *)
(* caches of up to MaxLayers layers.  The layers are those of the client's *)
(* tests: two rooms that overlap, a third with the box of the first, and a *)
(* floor under all of them.                                                *)
(***************************************************************************)
ProbeLayers ==
  { Layer("segment", "room_a", Dims(0, 150, 0, 100)),
    Layer("segment", "room_b", Dims(50, 200, 0, 100)),
    Layer("segment", "room_c", Dims(0, 150, 0, 100)),
    Layer("floor", "floor", Dims(0, 200, 0, 100)) }

RECURSIVE LayerLists(_)
LayerLists(n) ==
  IF n = 0 THEN {<<>>}
  ELSE LayerLists(n - 1) \cup
       {Append(ls, l) : ls \in {k \in LayerLists(n - 1) : Len(k) = n - 1}, l \in ProbeLayers}

ProbeXs == {0 - 1, 0, 50, 70, 100, 130, 150, 151, 200, 201}
ProbeYs == {0 - 1, 0, 50, 100, 101}

InitLookup ==
  /\ config = Config(FALSE, FALSE)
  /\ vacuum = NewVacuum
  /\ startTimeout = "unset"
  /\ cycles = EmptyBag
  /\ shutdown = FALSE
  /\ now = StartTime
  /\ returned = <<>>
  /\ vacuums = <<>>
  /\ adding = EmptyBag
  /\ probe \in {[layers |-> ls, x |-> x, y |-> y, called |-> FALSE, result |-> <<>>] :
                  ls \in LayerLists(MaxLayers), x \in ProbeXs, y \in ProbeYs}

\* the call (module.ts:1016) on a cache made of the layers
findSegment ==
  /\ ~probe.called
  /\ probe' = [probe EXCEPT
                 !.called = TRUE,
                 !.result = findSegmentAtPositionCached(
                              createCachedLayers([layers |-> probe.layers,
                                                  size |-> [x |-> 200, y |-> 100],
                                                  pixelSize |-> 5, version |-> 1], now),
                              probe.x, probe.y)]
  /\ UNCHANGED <<config, vacuum, startTimeout, cycles, shutdown, now, returned, vacuums, adding>>

NextLookup == findSegment

SpecLookup == InitLookup /\ [][NextLookup]_vars

(***************************************************************************)
(* Calls of the pure functions of the platform, one call per run: probe    *)
(* holds the arguments, and the result once the call is made.              *)
(***************************************************************************)
InitProbe(inputs) ==
  /\ config = Config(FALSE, FALSE)
  /\ vacuum = NewVacuum
  /\ startTimeout = "unset"
  /\ cycles = EmptyBag
  /\ shutdown = FALSE
  /\ now = StartTime
  /\ returned = <<>>
  /\ vacuums = <<>>
  /\ adding = EmptyBag
  /\ probe \in inputs

Call(result) ==
  /\ ~probe.called
  /\ probe' = [probe EXCEPT !.called = TRUE, !.result = result]
  /\ UNCHANGED <<config, vacuum, startTimeout, cycles, shutdown, now, returned, vacuums, adding>>

\* the statuses of the table (lines 1140-1150) and some that are not in it,
\* each with the spellings the vendor may use: base is the status in lower
\* case
KnownStatuses ==
  {"idle", "docked", "cleaning", "returning", "manual_control", "moving", "paused",
   "error", "charging"}

Spellings(base) ==
  CASE base = "idle" -> {"idle", "Idle", "IDLE"}
    [] base = "docked" -> {"docked", "Docked", "DOCKED"}
    [] base = "cleaning" -> {"cleaning", "Cleaning", "CLEANING"}
    [] base = "returning" -> {"returning", "Returning", "RETURNING"}
    [] base = "manual_control" -> {"manual_control", "Manual_Control", "MANUAL_CONTROL"}
    [] base = "moving" -> {"moving", "Moving", "MOVING"}
    [] base = "paused" -> {"paused", "Paused", "PAUSED"}
    [] base = "error" -> {"error", "Error", "ERROR"}
    [] base = "charging" -> {"charging", "Charging", "CHARGING"}
    [] base = "emptying" -> {"emptying", "Emptying", "EMPTYING"}
    [] base = "drying" -> {"drying", "Drying", "DRYING"}
    [] base = "unknown" -> {"unknown", "Unknown", "UNKNOWN"}
    [] base = "constructor" -> {"constructor", "Constructor", "CONSTRUCTOR"}
    [] OTHER -> {base}

ProbeStatuses == KnownStatuses \cup {"unknown", "", "sleeping", "constructor", "__proto__"}

\* the dock sub-status: absent, empty, or a word
ProbeDockStatuses == {"emptying", "drying", "cleaning", "idle", "error", "pause"}

StatusInputs ==
  {[base |-> b, status |-> st, dockBase |-> d, dockStatus |-> ds,
    called |-> FALSE, result |-> <<>>] :
     b \in ProbeStatuses, st \in UNION {Spellings(x) : x \in ProbeStatuses},
     d \in ProbeDockStatuses \cup {undefined, ""},
     ds \in UNION {Spellings(x) : x \in ProbeDockStatuses} \cup {undefined, ""}}

InitStatus ==
  InitProbe({i \in StatusInputs :
               i.status \in Spellings(i.base) /\ i.dockStatus \in Spellings(i.dockBase)})

\* lines 958 and 967: the two mappings of a status
mapStatus ==
  Call([operationalState |->
          mapValetudoStatusToOperationalState(probe.status, probe.dockStatus),
        runMode |-> mapValetudoStatusToRunMode(probe.status)])

NextStatus == mapStatus

SpecStatus == InitStatus /\ [][NextStatus]_vars

(***************************************************************************)
(* Building the clean-mode catalog of one device: every answer of the      *)
(* vendor, then lines 460-538 of createDeviceForVacuum.                    *)
(***************************************************************************)
FanPresets == {"off", "min", "low", "medium", "Medium", "high", "max", "turbo", "custom"}

RECURSIVE PresetLists(_)
PresetLists(n) ==
  IF n = 0 THEN {<<>>}
  ELSE LET shorter == PresetLists(n - 1)
       IN shorter \cup {Append(l, p) : l \in shorter, p \in FanPresets}

\* null when the request failed, the list otherwise
FanAnswers == {<<>>} \cup {<<l>> : l \in PresetLists(MaxPresets)}
WaterAnswers == {<<>>, <<{}>>, <<{"low", "medium", "high"}>>}
OperationModeAnswers ==
  {<<>>, <<{}>>, <<{"vacuum"}>>, <<{"vaccum", "mop"}>>, <<{"mop", "vacuum_and_mop"}>>,
   <<{"vacuum", "mop", "vacuum_and_mop"}>>}
CapabilitySets ==
  {{}, {"OperationModeControlCapability", "FanSpeedControlCapability"},
   {"OperationModeControlCapability", "FanSpeedControlCapability",
    "WaterUsageControlCapability"}}
\* config.modeMapping: "" for a name that is not configured
ModeMappings ==
  {[vacuum |-> "", mop |-> "", vacuumAndMop |-> ""],
   [vacuum |-> "mop", mop |-> "", vacuumAndMop |-> ""],
   [vacuum |-> "", mop |-> "", vacuumAndMop |-> "vacuum"]}

InitCatalog ==
  InitProbe([capabilities : CapabilitySets, operationModes : OperationModeAnswers,
             fanSpeedPresets : FanAnswers, waterUsagePresets : WaterAnswers,
             modeMapping : ModeMappings, called : {FALSE}, result : {<<>>}])

\* the fan presets as createIntensityVariants is given them
fanGiven(p) == IF "FanSpeedControlCapability" \in p.capabilities THEN p.fanSpeedPresets ELSE <<>>

buildCatalog ==
  LET generated == generatedCleanModes(probe.capabilities, probe.operationModes,
                                       probe.fanSpeedPresets, probe.waterUsagePresets,
                                       getModeMapping(probe.modeMapping))
  IN Call([generated |-> generated,
           variants |-> createIntensityVariants(getModeMapping(probe.modeMapping).vacuum,
                                                VacuumQuiet, <<"Vacuum">>, fanGiven(probe)),
           supportedCleanModes |-> supportedCleanModes(generated)])

NextCatalog == buildCatalog
SpecCatalog == InitCatalog /\ [][NextCatalog]_vars

(***************************************************************************)
(* The start of polling (startPollingForVacuum, lines 600-633, called by   *)
(* initializeVacuum, line 366).  The state is one record, probe:           *)
(*   keys          Array.from(this.vacuums.keys()), a Map keeps its keys   *)
(*                 in the order they were first set;                       *)
(*   initializing  ids whose initializeVacuum is suspended (lines 354-363);*)
(*   timers        the setTimeout of line 613, one per device: its delay,  *)
(*                 the time it was set and the time its callback ran;      *)
(*   time          the clock, in ms, a step is one second.                 *)
(* onShutdown clears the map and leaves the suspended calls alone.         *)
(***************************************************************************)
indexOf(seq, x) ==
  IF \E i \in DOMAIN seq : seq[i] = x
  THEN (CHOOSE i \in DOMAIN seq : seq[i] = x /\ \A j \in 1..(i - 1) : seq[j] # x) - 1
  ELSE 0 - 1

\* lines 604-610
totalDelay(keys, id) == MIN_INITIAL_DELAY + indexOf(keys, id) * STAGGER

InitStartup ==
  InitProbe({[keys |-> <<>>, initializing |-> {}, timers |-> <<>>, time |-> 0,
              cleared |-> FALSE]})

StartupStep(p) ==
  /\ probe' = p
  /\ UNCHANGED <<config, vacuum, startTimeout, cycles, shutdown, now, returned, vacuums, adding>>

\* lines 340-345: the record is stored and initializeVacuum is called
storeVacuum ==
  \E id \in SystemIds :
    /\ id \notin probe.initializing
    /\ id \notin DOMAIN probe.timers
    /\ id \notin Range(probe.keys)
    /\ StartupStep([probe EXCEPT !.keys = Append(@, id), !.initializing = @ \cup {id}])

\* lines 366 and 600-633: the device is created, the first poll is scheduled
startPollingForVacuum ==
  \E id \in probe.initializing :
    StartupStep([probe EXCEPT
      !.initializing = @ \ {id},
      !.timers = (id :> [position |-> indexOf(probe.keys, id),
                         totalDelay |-> totalDelay(probe.keys, id),
                         setAt |-> probe.time, ranAt |-> null]) @@ @])

\* lines 369-372: createDeviceForVacuum threw, no poll is scheduled
initializeFailed ==
  \E id \in probe.initializing :
    StartupStep([probe EXCEPT !.initializing = @ \ {id}])

\* line 177
clearVacuums ==
  /\ ~probe.cleared
  /\ StartupStep([probe EXCEPT !.keys = <<>>, !.cleared = TRUE])

\* a second passes
Second ==
  /\ probe.time < MaxSeconds * STAGGER
  /\ StartupStep([probe EXCEPT !.time = @ + STAGGER])

\* lines 613-616: the timeout has elapsed, the callback starts the first poll
firstPoll ==
  \E id \in DOMAIN probe.timers :
    /\ probe.timers[id].ranAt = null
    /\ probe.time >= probe.timers[id].setAt + probe.timers[id].totalDelay
    /\ StartupStep([probe EXCEPT !.timers[id].ranAt = probe.time])

NextStartup ==
  \/ storeVacuum
  \/ startPollingForVacuum
  \/ initializeFailed
  \/ clearVacuums
  \/ Second
  \/ firstPoll

SpecStartup == InitStartup /\ [][NextStartup]_vars

(***************************************************************************)
(* The poll period (line 602) of every configured interval: multiples of a *)
(* second, and the neighbours of the floor and the ceiling.                *)
(***************************************************************************)
PollStep == MIN_POLL \div 5
PollingIntervals ==
  {k * PollStep : k \in 0..MaxPollSteps}
    \cup {1, MIN_POLL - 1, MIN_POLL + 1, MAX_POLL - 1, MAX_POLL + 1}

InitInterval ==
  InitProbe([pollingInterval : PollingIntervals, called : {FALSE}, result : {<<>>}])

\* line 602 under the configuration whose pollingInterval is the input
clampInterval ==
  Call(baseInterval([config EXCEPT !.pollingInterval = probe.pollingInterval]))

NextInterval == clampInterval
SpecInterval == InitInterval /\ [][NextInterval]_vars

(***************************************************************************)
(* Calls of createCachedLayers: every payload of up to MaxLayers layers.   *)
(***************************************************************************)
ProbeMaps ==
  {[version |-> version, pixelSize |-> pixelSize, size |-> size, layers |-> layers] :
     version \in MapVersions, pixelSize \in {5, 10},
     size \in {[x |-> 40, y |-> 20], [x |-> 1024, y |-> 1024]},
     layers \in LayerLists(MaxLayers)}

InitCache ==
  InitProbe([mapData : ProbeMaps, time : {StartTime, StartTime + ClockStep},
             called : {FALSE}, result : {<<>>}])

buildCache == Call(createCachedLayers(probe.mapData, probe.time))

NextCache == buildCache
SpecCache == InitCache /\ [][NextCache]_vars

(***************************************************************************)
(* The region sub-step (lines 1009-1035) of activations that may overlap:  *)
(* probe.v is the record, probe.cs the activations suspended at the write  *)
(* of currentArea.  The other fields tell of the step just taken, if it    *)
(* was a lookup: the robot position, the region                            *)
(* findSegmentAtPositionCached answered, the last-published area before    *)
(* it, and whether it wrote.                                               *)
(***************************************************************************)
RegionCatalogs == {<<"s1", "s2">>, <<"s2">>}

\* robot_position points: none, one coordinate, the two rooms, the strip the
\* rooms of map 1 share, a point off the map
RegionPoints == {<<>>, <<25>>, <<25, 50>>, <<62, 50>>, <<90, 50>>, <<150, 50>>, <<250, 50>>}

RegionVacuum(segments, version) ==
  [NewVacuum EXCEPT !.device = TRUE,
                    !.areaToSegmentMap = areaToSegmentMap(segments),
                    !.mapLayersCache = <<createCachedLayers(MapData(version), StartTime)>>,
                    !.mapCacheValidUntil = StartTime + refreshMs(Config(TRUE, FALSE))]

NoLookup == [points |-> <<>>, segment |-> <<>>, before |-> null, wrote |-> FALSE,
             looked |-> FALSE]

InitRegion ==
  InitProbe({[v |-> RegionVacuum(segments, version), cs |-> <<>>] @@ NoLookup :
               segments \in RegionCatalogs, version \in MapVersions})

RegionStep(p) ==
  /\ probe' = p
  /\ UNCHANGED <<config, vacuum, startTimeout, cycles, shutdown, now, returned, vacuums, adding>>

Without(seq, i) == [k \in 1..(Len(seq) - 1) |-> IF k < i THEN seq[k] ELSE seq[k + 1]]

\* lines 1009-1030: the position payload is there, the region is looked up
lookupRegion ==
  /\ Len(probe.cs) < MaxInFlight
  /\ \E points \in RegionPoints :
       LET cache == probe.v.mapLayersCache[1]
           r == Lookup(probe.v, At(NewCycle(FALSE, TRUE), "getMapPositionData"), points, now)
       IN RegionStep([v |-> r.v,
                      cs |-> IF r.c.pc = "setCurrentArea" THEN Append(probe.cs, r.c)
                             ELSE probe.cs,
                      points |-> points,
                      segment |-> IF Len(points) < 2 THEN <<>>
                                  ELSE findSegmentAtPositionCached(
                                         cache, RoundDiv(points[1], cache.pixelSize),
                                         RoundDiv(points[2], cache.pixelSize)),
                      before |-> probe.v.lastCurrentArea,
                      wrote |-> r.c.pc = "setCurrentArea",
                      looked |-> TRUE])

\* lines 1031-1032: setAttribute returned
currentAreaWritten ==
  \E i \in DOMAIN probe.cs :
    RegionStep([v |-> AfterWrite(probe.v, probe.cs[i], config, now).v,
                cs |-> Without(probe.cs, i)] @@ NoLookup)

\* lines 1031 and 1038-1040: setAttribute threw
currentAreaThrew ==
  \E i \in DOMAIN probe.cs :
    RegionStep([v |-> AfterThrow(probe.v, probe.cs[i], now).v,
                cs |-> Without(probe.cs, i)] @@ NoLookup)

\* lines 1062-1068: the cache is rebuilt from the map the vendor has now
cacheRefreshed ==
  \E version \in MapVersions :
    /\ version # probe.v.mapLayersCache[1].version
    /\ RegionStep([v |-> refreshMapCacheForVacuum(probe.v, Config(TRUE, FALSE),
                                                  <<MapData(version)>>, now),
                   cs |-> probe.cs] @@ NoLookup)

NextRegion ==
  \/ lookupRegion
  \/ currentAreaWritten
  \/ currentAreaThrew
  \/ cacheRefreshed

SpecRegion == InitRegion /\ [][NextRegion]_vars

(***************************************************************************)
(* The needs-replacement boolean of device setup (lines 810-817) and of    *)
(* the periodic check (lines 1098-1115), for one consumable under one      *)
(* configured threshold (null: none is configured).                        *)
(***************************************************************************)
ProbeConsumables ==
  {Consumable(k[1], k[2], value) :
     k \in {<<"brush", "main">>, <<"brush", "side_right">>, <<"filter", "main">>,
            <<"cleaning", "sensor">>, <<"consumable", "detergent">>, <<"cleaning", "wheel">>},
     value \in {0, 5, 100, 101, 900, 1800, 9000}}

WarningThresholds == {null, 0, 5, 10, 50, 100}

InitThreshold ==
  InitProbe([consumable : ProbeConsumables, warningThreshold : WarningThresholds,
             called : {FALSE}, result : {<<>>}])

needsReplacement ==
  LET cfg == [config EXCEPT !.warningThreshold = probe.warningThreshold]
  IN Call([setup |-> needsReplacementAtSetup(probe.consumable, cfg),
           check |-> needsReplacementAtCheck(probe.consumable, cfg)])

NextThreshold == needsReplacement
SpecThreshold == InitThreshold /\ [][NextThreshold]_vars

(***************************************************************************)
(* SpecCleanMode: a device is created with its clean-mode catalog (lines   *)
(* 460-538) and the changeToMode handler is run for a clean-mode code      *)
(* (lines 679-696).  probe holds what the vendor answered at creation, the *)
(* configuration, the catalog, the code of the last request and the vendor *)
(* requests its handler made, in order.  The client's set requests never   *)
(* throw (valetudo-client.ts lines 353-423), so the handler makes all of   *)
(* them.                                                                   *)
(***************************************************************************)
VacuumTurbo == 70
VacuumMopTurbo == 9

\* the tables of getIntensitySettings (lines 1285-1291 and 1309-1315)
offsetMap(offset) ==
  CASE offset = 0 -> <<[key |-> "quiet", fan |-> "low", water |-> "low"]>>
    [] offset = 1 -> <<[key |-> "auto", fan |-> "medium", water |-> "medium"]>>
    [] offset = 2 -> <<[key |-> "quick", fan |-> "high", water |-> "high"]>>
    [] offset = 3 -> <<[key |-> "max", fan |-> "max", water |-> "high"]>>
    [] offset = 4 -> <<[key |-> "max", fan |-> "turbo", water |-> "high"]>>
    [] OTHER -> <<>>

\* lines 1297-1302
modeMap(mode) ==
  CASE mode = MopMin -> <<[key |-> "auto", fan |-> "medium", water |-> "medium"]>>
    [] mode = MopLow -> <<[key |-> "quiet", fan |-> "low", water |-> "low"]>>
    [] mode = MopMedium -> <<[key |-> "quick", fan |-> "high", water |-> "high"]>>
    [] mode = MopHigh -> <<[key |-> "max", fan |-> "max", water |-> "high"]>>
    [] OTHER -> <<>>

\* table[key] || fallback
OrElse(found, fallback) == IF found # <<>> THEN found[1] ELSE fallback[1]

\* intensityPresets: for each key the configured fanSpeed and waterUsage,
\* "" for one that is not configured
getIntensitySettings(mode, intensityPresets) ==
  LET withOverrides(mapping) ==
        LET overrides == intensityPresets[mapping.key]
        IN [fan |-> IF overrides.fanSpeed # "" THEN overrides.fanSpeed ELSE mapping.fan,
            water |-> IF overrides.waterUsage # "" THEN overrides.waterUsage
                      ELSE mapping.water]
  IN IF mode >= VacuumQuiet /\ mode <= VacuumTurbo
     THEN withOverrides(OrElse(offsetMap(mode - VacuumQuiet), offsetMap(1)))
     ELSE IF mode >= MopMin /\ mode <= MopHigh
     THEN withOverrides(OrElse(modeMap(mode), modeMap(MopMin)))
     ELSE IF mode >= VacuumMopQuiet /\ mode <= VacuumMopTurbo
     THEN withOverrides(OrElse(offsetMap(mode - VacuumMopQuiet), offsetMap(1)))
     ELSE [fan |-> "medium", water |-> "medium"]

getBaseModeFromNumber(mode, modeMapping) ==
  IF mode >= 66 /\ mode <= 70 THEN modeMapping.vacuum
  ELSE IF mode >= 31 /\ mode <= 42 THEN modeMapping.mop
  ELSE IF mode >= 5 /\ mode <= 9 THEN modeMapping.vacuumAndMop
  ELSE ""

IntensityKeys == {"auto", "quiet", "quick", "max"}
NoOverrides == [k \in IntensityKeys |-> [fanSpeed |-> "", waterUsage |-> ""]]
IntensityPresets ==
  {NoOverrides, [NoOverrides EXCEPT !["max"] = [fanSpeed |-> "turbo", waterUsage |-> ""]]}

\* codes a controller may send that are in no catalog
StrayCodes == {0, 35, 71}

InitCleanMode ==
  InitProbe([capabilities : CapabilitySets \ {{}},
             operationModes : {<<{"vaccum", "mop"}>>, <<{"vacuum", "mop", "vacuum_and_mop"}>>},
             fanSpeedPresets : FanAnswers, waterUsagePresets : WaterAnswers,
             modeMapping : ModeMappings, intensityPresets : IntensityPresets,
             created : {FALSE}, supportedCleanModes : {<<>>}, newMode : {null},
             sent : {<<>>}])

CleanModeStep(fields) ==
  /\ probe' = [k \in DOMAIN probe |-> IF k \in DOMAIN fields THEN fields[k] ELSE probe[k]]
  /\ UNCHANGED <<config, vacuum, startTimeout, cycles, shutdown, now, returned, vacuums, adding>>

createDeviceForVacuum ==
  /\ ~probe.created
  /\ CleanModeStep([created |-> TRUE,
                    supportedCleanModes |->
                      supportedCleanModes(
                        generatedCleanModes(probe.capabilities, probe.operationModes,
                                            probe.fanSpeedPresets, probe.waterUsagePresets,
                                            getModeMapping(probe.modeMapping)))])

\* the requests the handler makes for a clean-mode code (lines 679-696)
cleanModeRequests(newMode, capabilities, modeMapping, intensityPresets) ==
  LET settings == getIntensitySettings(newMode, intensityPresets)
      mode == getBaseModeFromNumber(newMode, getModeMapping(modeMapping))
  IN IF mode # ""
     THEN <<[request |-> "setOperationMode", preset |-> mode]>>
          \o (IF settings.fan # "" /\ "FanSpeedControlCapability" \in capabilities
              THEN <<[request |-> "setFanSpeed", preset |-> settings.fan]>> ELSE <<>>)
          \o (IF settings.water # "" /\ "WaterUsageControlCapability" \in capabilities
              THEN <<[request |-> "setWaterUsage", preset |-> settings.water]>> ELSE <<>>)
     ELSE <<>>

changeToMode ==
  /\ probe.created
  /\ \E newMode \in {probe.supportedCleanModes[i].mode : i \in DOMAIN probe.supportedCleanModes}
                      \cup StrayCodes :
       /\ ~(newMode >= 1 /\ newMode <= 3)
       /\ CleanModeStep([newMode |-> newMode,
                         sent |-> cleanModeRequests(newMode, probe.capabilities,
                                                    probe.modeMapping,
                                                    probe.intensityPresets)])

NextCleanMode == createDeviceForVacuum \/ changeToMode
SpecCleanMode == InitCleanMode /\ [][NextCleanMode]_vars

(***************************************************************************)
(* SpecSelection: the selectAreas handler (lines 718-744) and the run-mode *)
(* branch of the changeToMode handler (lines 655-678) of one device.  A    *)
(* handler is an async function the bridge calls for each request; one     *)
(* that awaits the vendor is a record of probe.handlers until the vendor   *)
(* has answered, and other handlers run meanwhile.  probe.issued is what   *)
(* the last step asked of the vendor.  probe.requested and probe.stopped   *)
(* are the history: the areas of the last selectAreas request that         *)
(* completed, and whether a stop request has completed since.              *)
(***************************************************************************)
MaxHandlers == 2

Segment(id, name) == [id |-> id, name |-> name]

\* vacuum.areaToSegmentMap (lines 407-445): area id -> segment
AreaMaps ==
  {<<Segment("16", "Kitchen")>>,
   <<Segment("16", "Kitchen"), Segment("17", "Hall")>>}

\* request.newAreas: undefined, or a list of area ids
AreaRequests == {undefined, <<>>, <<1>>, <<2>>, <<1, 2>>, <<2, 1>>, <<3>>, <<3, 1>>}

InitSelection ==
  InitProbe([areaToSegmentMap : AreaMaps,
             selectedSegmentIds : {<<>>}, selectedRoomNames : {<<>>},
             handlers : {EmptyBag}, issued : {<<>>},
             requested : {<<>>}, stopped : {FALSE}])

SelectionStep(fields) ==
  /\ probe' = [k \in DOMAIN probe |-> IF k \in DOMAIN fields THEN fields[k] ELSE probe[k]]
  /\ UNCHANGED <<config, vacuum, startTimeout, cycles, shutdown, now, returned, vacuums, adding>>

\* lines 730-738: the segments of the areas the map knows, in request order
RECURSIVE selectedSegments(_, _)
selectedSegments(areaToSegment, newAreas) ==
  IF newAreas = <<>> THEN <<>>
  ELSE LET areaId == Head(newAreas)
           rest == selectedSegments(areaToSegment, Tail(newAreas))
       IN IF areaId \in DOMAIN areaToSegment THEN <<areaToSegment[areaId]>> \o rest ELSE rest

\* the handler has no await: it runs to its end when it is called
selectAreas ==
  \E newAreas \in AreaRequests :
    IF newAreas = undefined \/ newAreas = <<>>
    THEN SelectionStep([selectedSegmentIds |-> <<>>, selectedRoomNames |-> <<>>,
                        issued |-> <<>>, requested |-> <<>>, stopped |-> FALSE])
    ELSE LET segments == selectedSegments(probe.areaToSegmentMap, newAreas)
         IN SelectionStep([selectedSegmentIds |-> [i \in DOMAIN segments |-> segments[i].id],
                           selectedRoomNames |-> [i \in DOMAIN segments |-> segments[i].name],
                           issued |-> <<>>, requested |-> newAreas, stopped |-> FALSE])

\* changeToMode with newMode 2 (lines 663-672) up to its first await
startRequested ==
  /\ BagCardinality(probe.handlers) < MaxHandlers
  /\ IF Len(probe.selectedSegmentIds) > 0
     THEN SelectionStep([handlers |-> probe.handlers
                                        (+) SetToBag({[pc |-> "getMapSegmentationProperties"]}),
                         issued |-> <<[request |-> "getMapSegmentationProperties"]>>])
     ELSE SelectionStep([issued |-> <<[request |-> "startCleaning"]>>])

\* line 667: the properties are there, or null; the selection is read again
propertiesFetched ==
  /\ [pc |-> "getMapSegmentationProperties"] \in BagToSet(probe.handlers)
  /\ \E customOrderSupported \in {null} \cup {0, 1} :
       SelectionStep([handlers |-> probe.handlers
                                     (-) SetToBag({[pc |-> "getMapSegmentationProperties"]}),
                      issued |-> <<[request |-> "cleanSegments",
                                    segment_ids |-> probe.selectedSegmentIds,
                                    customOrder |-> IF customOrderSupported = null THEN 0
                                                    ELSE customOrderSupported]>>])

\* changeToMode with newMode 1 (lines 673-675) up to its await
stopRequested ==
  /\ BagCardinality(probe.handlers) < MaxHandlers
  /\ SelectionStep([handlers |-> probe.handlers (+) SetToBag({[pc |-> "stopCleaning"]}),
                    issued |-> <<[request |-> "stopCleaning"]>>])

\* lines 676-677: the vendor has answered the stop, with success or not
stopAnswered ==
  /\ [pc |-> "stopCleaning"] \in BagToSet(probe.handlers)
  /\ SelectionStep([handlers |-> probe.handlers (-) SetToBag({[pc |-> "stopCleaning"]}),
                    selectedSegmentIds |-> <<>>, selectedRoomNames |-> <<>>,
                    issued |-> <<>>, stopped |-> TRUE])

\* changeToMode with newMode 3, a run mode with no branch, or with a clean
\* mode (lines 679-696): the selection is not read
otherModeRequested ==
  \E newMode \in {3, VacuumQuiet} :
    SelectionStep([issued |-> IF newMode >= 1 /\ newMode <= 3 THEN <<>>
                              ELSE cleanModeRequests(newMode, {}, getModeMapping(
                                     [vacuum |-> "", mop |-> "", vacuumAndMop |-> ""]),
                                     NoOverrides)])

NextSelection ==
  \/ selectAreas
  \/ startRequested
  \/ propertiesFetched
  \/ stopRequested
  \/ stopAnswered
  \/ otherModeRequested

SpecSelection == InitSelection /\ [][NextSelection]_vars

(***************************************************************************)
(* SpecAreas: the region catalog createDeviceForVacuum builds from the     *)
(* segments the vendor lists (lines 407-445).  A name is the sequence of   *)
(* its words and whether white space surrounds it: "Room 2" is the words   *)
(* "Room" and "2", which is also what the suffix of line 418 makes of      *)
(* "Room" and the count 2.                                                 *)
(***************************************************************************)
MaxSegments == 3

Name(words, padded) == [words |-> words, padded |-> padded]

SegmentNames ==
  {Name(words, padded) :
     words \in {<<>>, <<"Room">>, <<"Hall">>, <<"Room", "2">>}, padded \in BOOLEAN}

\* the answers of getMapSegments: the vendor's ids are pairwise different
RECURSIVE SegmentAnswers(_)
SegmentAnswers(n) ==
  IF n = 0 THEN {<<>>}
  ELSE LET shorter == SegmentAnswers(n - 1)
       IN shorter \cup {Append(l, Segment(ToString(15 + n), name)) :
                          l \in {s \in shorter : Len(s) = n - 1}, name \in SegmentNames}

trim(name) == Name(name.words, FALSE)

\* line 418: `${locationName} ${count}`
suffixed(locationName, count) == Name(Append(locationName.words, ToString(count)), FALSE)

\* line 411
RECURSIVE validSegments(_)
validSegments(segments) ==
  IF segments = <<>> THEN <<>>
  ELSE (IF Len(trim(Head(segments).name).words) > 0 THEN <<Head(segments)>> ELSE <<>>)
       \o validSegments(Tail(segments))

\* lines 413-440 for the segments from index on: usedNames is the map of the
\* names seen, areas the list built so far
RECURSIVE areasLoop(_, _, _, _)
areasLoop(valid, index, usedNames, areas) ==
  IF index > Len(valid) THEN areas
  ELSE LET name == trim(valid[index].name)
           used == name \in DOMAIN usedNames
           count == IF used THEN usedNames[name] + 1 ELSE 1
           locationName == IF used THEN suffixed(name, count) ELSE name
       IN areasLoop(valid, index + 1,
                    [n \in DOMAIN usedNames \cup {name} |-> IF n = name THEN count
                                                            ELSE usedNames[n]],
                    Append(areas, [areaId |-> index, segment |-> valid[index].id,
                                   locationName |-> locationName]))

InitAreas ==
  InitProbe([segments : SegmentAnswers(MaxSegments), called : {FALSE}, result : {<<>>}])

\* supportedAreas, and with it vacuum.areaToSegmentMap (line 426)
createAreas == Call(areasLoop(validSegments(probe.segments), 1, <<>>, <<>>))

NextAreas == createAreas
SpecAreas == InitAreas /\ [][NextAreas]_vars

(***************************************************************************)
(* Properties.  They speak of the traced activation: in flight, or the one *)
(* that returned in the last step.                                         *)
(***************************************************************************)
TrackedAttributes ==
  <<"batPercentRemaining", "batChargeState", "operationalState", "currentMode">>

Tracked == Range(TrackedAttributes)

\* the awaits after the attribute pass (lines 986-1046)
AfterPass ==
  {"delay500", "getMapData1", "getMapPositionData", "getMapData2", "setCurrentArea",
   "getConsumables", "setStateValue"}

\* the traced activation and the await it is at, or has returned from
InFlight == {[at |-> c.pc, c |-> c] : c \in {d \in BagToSet(cycles) : d.traced}}

Returned ==
  {[at |-> returned[i].from, c |-> returned[i].cycle] :
     i \in {j \in DOMAIN returned : returned[j].cycle.traced}}

\* the activation of the last step, traced or not, if it returned
LastReturn == {returned[i] : i \in DOMAIN returned}

WritesOfTracked(c) == SelectSeq(c.writes, LAMBDA a : a \in Tracked)

NoRepeat(seq) == \A i, j \in 1..Len(seq) : i # j => seq[i] # seq[j]

Present(c) == SelectSeq(TrackedAttributes, LAMBDA a : a \in c.computed)

C3_OneInFlight == BagCardinality(cycles) <= 1

\* C4 as stated: once onShutdown has completed, no step starts a poll cycle.
C4_NoCycleAfterShutdown ==
  [][shutdown => BagCardinality(cycles') <= BagCardinality(cycles)]_vars

\* C5 as stated: a cycle whose attribute fetch fails leaves the device
\* marked offline when it returns.
C5_FailedFetchOffline ==
  \A r \in LastReturn : r.from = "getStateAttributes" => ~vacuum.online

\* C6: a cycle that got its snapshot and returns without a tracked write
\* having thrown leaves the device marked online.
C6_OnlineAfterSuccess ==
  \A r \in LastReturn : r.from \in AfterPass => vacuum.online

\* a device marked offline is online again when such a cycle returns
C6_Witness ==
  \E r \in LastReturn : r.from \in AfterPass /\ ~r.before.online /\ vacuum.online

\* the fields C7 names
Frame(v) ==
  <<v.lastBatteryLevel, v.lastBatteryChargeState, v.lastOperationalState, v.lastRunMode,
    v.lastCurrentArea, v.initialStatePending, v.mapLayersCache, v.mapCacheValidUntil,
    v.lastConsumablesCheck>>

\* C7: a failed attribute fetch ends the cycle in that step, before any
\* other request or write (the cycle returns from its first await), and
\* leaves the last-published values, the last-published region, the pending
\* flag, the map cache and the last consumable check as they were.
C7_FailedFetchEndsCycle ==
  /\ [](\A r \in LastReturn :
          r.from = "getStateAttributes" =>
            Frame(vacuum) = Frame(r.before) /\ r.cycle.writes = <<>>)
  /\ [][StateAttributesFailed =>
          \E r \in {returned'[i] : i \in DOMAIN returned'} : r.from = "getStateAttributes"]_vars

\* a fetch fails for a device with published values, a map cache and a
\* consumable check behind it
C7_Witness ==
  \E r \in LastReturn :
    /\ r.from = "getStateAttributes"
    /\ vacuum.lastBatteryLevel # null /\ vacuum.lastCurrentArea # null
    /\ vacuum.mapLayersCache # <<>> /\ vacuum.lastConsumablesCheck # 0

\* C8: a running polling timer has the configured period; whenever it runs
\* it can fire (up to MaxInFlight activations are followed), and a tick
\* starts an activation that issues the attribute fetch; nothing but
\* onShutdown stops the timer or changes its period, a failed fetch in
\* particular does not.
C8_TimerKeepsFiring ==
  /\ [](vacuum.pollingInterval # 0 => vacuum.pollingInterval = baseInterval(config))
  /\ [](vacuum.pollingInterval # 0 /\ BagCardinality(cycles) < MaxInFlight
          => ENABLED IntervalTick)
  /\ [][IntervalTick =>
          \E c \in BagToSet(cycles') :
            c.pc = "getStateAttributes" /\ CopiesIn(c, cycles') = CopiesIn(c, cycles) + 1]_vars
  /\ [][vacuum.pollingInterval # 0 /\ vacuum'.pollingInterval # vacuum.pollingInterval
          => ~shutdown /\ shutdown']_vars

\* a regular poll has just failed to fetch, before shutdown: the timer runs
\* at the configured period and its next tick can fire
C8_Witness ==
  \E r \in LastReturn :
    /\ r.from = "getStateAttributes" /\ ~r.cycle.initial
    /\ ~shutdown /\ vacuum.pollingInterval = baseInterval(config)
    /\ ENABLED IntervalTick

\* the awaits of the position step and of the consumable step
PositionAwaits == {"getMapData1", "getMapPositionData", "getMapData2", "setCurrentArea"}

\* a fetch of the two steps fails, or a write of theirs throws
SoftFailure ==
  \/ MapDataFailed
  \/ PositionDataFailed
  \/ ConsumablesFailed
  \/ \E c \in Suspended({"setCurrentArea", "setStateValue"}) :
       Resume(c, AfterThrow(vacuum, c, now))

\* the activation c is the one that took the step
Took(c) == CopiesIn(c, cycles') < CopiesIn(c, cycles)

\* the activation the step left suspended at one of pcs
Reached(pcs) ==
  \E d \in BagToSet(cycles') : d.pc \in pcs /\ CopiesIn(d, cycles') > CopiesIn(d, cycles)

\* line 1044 and lines 1078-1081: a consumable check is due
Due ==
  /\ DOMAIN vacuum.consumableMap # {}
  /\ now - vacuum.lastConsumablesCheck >= CONSUMABLES_CHECK_INTERVAL

\* C9: a failure in the position step or the consumable step does not mark
\* the device offline and does not send the cycle to the catch block; if
\* the cycle returns in that step the device is marked online; and every
\* step of a cycle in the position step, failed or not, either leaves the
\* cycle in the position step (as a failed refresh of an existing cache
\* does) or runs the consumable check at once: the consumable fetch is
\* issued and stamped if it is due, the cycle returns if it is not.
C9_FailSoft ==
  [][
     /\ SoftFailure =>
           (/\ (vacuum.online => vacuum'.online)
            /\ ~Reached({"catch"})
            /\ (returned' # <<>> => vacuum'.online))
     /\ (\E c \in Suspended(PositionAwaits) : Took(c)) =>
           (\/ Reached(PositionAwaits)
            \/ IF Due
               THEN Reached({"getConsumables"}) /\ vacuum'.lastConsumablesCheck = now
               ELSE returned' # <<>>)
    ]_vars

\* the first map fetch of a cycle has failed (rooms are known, no cache
\* exists) and the cycle is fetching the consumables
C9_Witness ==
  /\ DOMAIN vacuum.areaToSegmentMap # {} /\ vacuum.mapLayersCache = <<>>
  /\ \E c \in BagToSet(cycles) : c.pc = "getConsumables"
  /\ vacuum.lastConsumablesCheck = now

\* the place of a kind of write in the order of C10
Rank(attr) ==
  CASE attr = "batPercentRemaining" -> 1
    [] attr = "batChargeState" -> 2
    [] attr = "operationalState" -> 3
    [] attr = "currentMode" -> 4
    [] attr = "currentArea" -> 5
    [] attr = "stateValue" -> 6

\* C10: in the writes of one cycle no write of an earlier kind follows a
\* write of a later kind, the kinds taken in the order battery level,
\* charge state, operational state, run mode, current region, consumable
\* state.
C10_WriteOrder ==
  \A o \in InFlight \cup Returned :
    \A i, j \in 1..Len(o.c.writes) :
      i < j => Rank(o.c.writes[i]) <= Rank(o.c.writes[j])

\* a cycle has issued a write of each of the six kinds and returned
C10_Witness ==
  \E o \in Returned :
    o.c.writes = TrackedAttributes \o <<"currentArea", "stateValue">>

(***************************************************************************)
(* Pacing of the downstream writes.                                        *)
(***************************************************************************)
\* C11 as stated: between two consecutive downstream writes of a device a
\* pacing delay elapses; no activation issues a write with no delay step
\* since the write it issued before.  The consumable loop (lines 1104-1128)
\* has no delay: the sensors of two consumables are written back to back,
\* and so are the current region and the first sensor.
C11_PacedWrites ==
  \A o \in InFlight \cup Returned : o.c.pace # "unpaced"

(***************************************************************************)
(* The map cache.                                                          *)
(***************************************************************************)
\* C12 as stated: an activation that found the cache absent or expired when
\* it entered the position block rebuilds the cache before it looks a region
\* up, and so does not look it up in an expired cache.  A refresh whose map
\* fetch fails leaves the expired cache in place (lines 1062-1068), and the
\* lookup goes ahead with it (lines 997, 1009).
C12_NoLookupInExpiredCache ==
  \A o \in InFlight \cup Returned :
    o.c.lookup # <<>> => ~o.c.lookup[1].expired

\* C13 as stated: every region lookup uses a cache whose version is the
\* version of the position payload being resolved.  The refresh of line 1005
\* may fail, or fetch a map of yet another version, and the lookup goes
\* ahead with the cache there is.
C13_LookupAtPayloadVersion ==
  \A o \in InFlight \cup Returned :
    o.c.lookup # <<>> => o.c.lookup[1].current

(***************************************************************************)
(* The consumable check.                                                   *)
(***************************************************************************)
Entries == {vacuum.consumableMap[name] : name \in DOMAIN vacuum.consumableMap}

\* lines 1125-1127: the last check of the entry wrote its sensor
wrote(entry) == entry.seen # "never" /\ entry.endpoint

C15_WriteOnlyOnChange ==
  \A entry \in Entries : wrote(entry) => entry.fired

\* C16: the consumables are fetched only by a check that is due, five
\* minutes or more after the check before it; the check stamps its time in
\* the step that issues the fetch and nothing else moves the stamp, so two
\* fetches are five minutes apart in every interleaving; an activation that
\* comes to the check earlier returns without a request.
C16_CheckInterval ==
  [][
     /\ Reached({"getConsumables"}) =>
           (/\ now - vacuum.lastConsumablesCheck >= CONSUMABLES_CHECK_INTERVAL
            /\ vacuum'.lastConsumablesCheck = now)
     /\ (vacuum'.lastConsumablesCheck # vacuum.lastConsumablesCheck) =>
           Reached({"getConsumables"})
     /\ ((\E c \in Suspended({"delay500"}) : Took(c)) /\ ~Due) =>
           (returned' # <<>> /\ ~Reached({"getConsumables"}))
    ]_vars

\* a second check of the vacuum has just issued its fetch
C16_Witness ==
  /\ \E c \in BagToSet(cycles) : c.pc = "getConsumables"
  /\ vacuum.lastConsumablesCheck = now
  /\ \E entry \in Entries : entry.seen # "never"

(***************************************************************************)
(* The registry.                                                           *)
(***************************************************************************)
\* the add-device operations that found their system id registered in the
\* last step
Duplicates == {r \in LastReturn : r.from = "delay"}

\* the registry is keyed by the system id of its records
OnePerId == \A id \in DOMAIN vacuums : vacuums[id].id = id

\* C17 as stated: one record per system id, and an add-device operation
\* that finds its system id registered at another address changes the
\* address and the client of that record and nothing else in the registry.
C17_AddressOnly ==
  /\ OnePerId
  /\ \A r \in Duplicates :
       LET a == r.cycle
           old == r.before[a.id]
       IN vacuums = [r.before EXCEPT ![a.id] =
                       IF old.ip # a.ip
                       THEN [old EXCEPT !.ip = a.ip, !.client = ValetudoClient(a.ip)]
                       ELSE old]

\* C17, amended: one record per system id, and an add-device operation that
\* finds its system id registered at another address sets the address, the
\* client and the lastSeen time of that record (line 289) and changes
\* nothing else in the registry: the last-published values and every other
\* field stay, no record is added; at the same address nothing changes.
C17_InPlaceUpdate ==
  /\ OnePerId
  /\ \A r \in Duplicates :
       LET a == r.cycle
           old == r.before[a.id]
       IN vacuums = [r.before EXCEPT ![a.id] =
                       IF old.ip # a.ip
                       THEN [old EXCEPT !.ip = a.ip, !.client = ValetudoClient(a.ip),
                                        !.lastSeen = now]
                       ELSE old]

\* a vacuum whose values have been published has just been found at another
\* address, later than it was seen last
C17_Witness ==
  \E r \in Duplicates :
    LET a == r.cycle
        old == r.before[a.id]
    IN /\ old.ip # a.ip /\ old.lastSeen < now
       /\ old.device /\ old.lastBatteryLevel # null
       /\ vacuums[a.id].ip = a.ip
       /\ vacuums[a.id].lastBatteryLevel = old.lastBatteryLevel
       /\ Cardinality(DOMAIN vacuums) = 2

(***************************************************************************)
(* The region lookup.                                                      *)
(***************************************************************************)
\* the point of the call lies in the box of layer i, edges included
Inside(i) ==
  LET dims == probe.layers[i].dimensions
  IN /\ dims.xmin <= probe.x /\ probe.x <= dims.xmax
     /\ dims.ymin <= probe.y /\ probe.y <= dims.ymax

\* the region layers whose box contains the point
Candidates == {i \in DOMAIN probe.layers : probe.layers[i].type = "segment" /\ Inside(i)}

\* squared Euclidean distance of the point to the recorded midpoint of layer i
Distance(i) ==
  LET dims == probe.layers[i].dimensions
  IN (probe.x - dims.xmid) * (probe.x - dims.xmid) + (probe.y - dims.ymid) * (probe.y - dims.ymid)

\* C18: the call returns a region layer only if its box, edges included,
\* contains the point; it returns the one such layer if there is exactly one,
\* and null exactly if there is none (as for an empty list of layers).
C18_InclusiveBounds ==
  probe # <<>> /\ probe.called =>
    /\ probe.result = <<>> <=> Candidates = {}
    /\ probe.result # <<>> => \E i \in Candidates : probe.result[1] = probe.layers[i]
    /\ \A i \in Candidates : Candidates = {i} => probe.result = <<probe.layers[i]>>

\* a point on the corner of the box of the one region layer that contains it
C18_Witness ==
  /\ probe # <<>> /\ probe.called /\ probe.result # <<>>
  /\ Cardinality(Candidates) = 1
  /\ probe.x = probe.result[1].dimensions.xmax
  /\ probe.y = probe.result[1].dimensions.ymin

\* C19: with several region layers around the point, the call returns one
\* whose midpoint is nearest to the point, and of the nearest ones the
\* first in the order of the layers.
C19_NearestFirst ==
  probe # <<>> /\ probe.called /\ Cardinality(Candidates) >= 2 =>
    \E i \in Candidates :
      /\ probe.result = <<probe.layers[i]>>
      /\ \A j \in Candidates : Distance(i) <= Distance(j)
      /\ \A j \in Candidates : Distance(j) = Distance(i) => i <= j

\* two different rooms at the same distance from the point, a farther one
\* before them: the first of the two is returned
C19_Witness ==
  /\ probe # <<>> /\ probe.called
  /\ \E h, i, j \in Candidates :
       /\ h < i /\ i < j
       /\ Distance(h) > Distance(i) /\ Distance(i) = Distance(j)
       /\ probe.layers[i] # probe.layers[j]
       /\ probe.result = <<probe.layers[i]>>

\* C20: the call never returns a layer that is not a region layer; a layer
\* of another type around the point is ignored, and if no region layer is
\* around the point the result is null.
C20_RegionLayersOnly ==
  probe # <<>> /\ probe.called =>
    /\ probe.result # <<>> => probe.result[1].type = "segment"
    /\ (\A i \in DOMAIN probe.layers : Inside(i) => probe.layers[i].type # "segment")
          => probe.result = <<>>

\* a floor around the point, a room beside it: nothing is found
C20_Witness ==
  /\ probe # <<>> /\ probe.called /\ probe.result = <<>>
  /\ \E i \in DOMAIN probe.layers : Inside(i) /\ probe.layers[i].type = "floor"
  /\ \E i \in DOMAIN probe.layers : ~Inside(i) /\ probe.layers[i].type = "segment"

(***************************************************************************)
(* The status mapping.                                                     *)
(***************************************************************************)
\* the table of the operational states, by status in lower case
TableValue(base) ==
  CASE base \in {"idle", "docked", "moving"} -> Docked
    [] base \in {"cleaning", "manual_control"} -> Running
    [] base = "returning" -> SeekingCharger
    [] base = "paused" -> Paused
    [] base = "error" -> Error
    [] base = "charging" -> Charging

Mapped == probe # <<>> /\ probe.called

DockBusy == probe.dockBase \in {"emptying", "drying", "cleaning"}

\* C22: with status docked, idle or charging and a dock sub-status of
\* emptying, drying or cleaning, in any spelling, the operational state is
\* Docked; for every other status and every other or absent sub-status it
\* is the value of the base mapping.
C22_DockPrecedence ==
  Mapped =>
    probe.result.operationalState =
      IF probe.base \in {"docked", "idle", "charging"} /\ DockBusy THEN Docked
      ELSE IF probe.base \in KnownStatuses THEN TableValue(probe.base)
      ELSE statusMap(probe.base)

\* charging at a dock that is drying: Docked, not Charging
C22_Witness ==
  /\ Mapped /\ probe.status = "CHARGING" /\ probe.dockStatus = "Drying"
  /\ probe.result.operationalState = Docked
(***************************************************************************)
(* The clean-mode catalog (SpecCatalog).                                   *)
(***************************************************************************)
Built == probe # <<>> /\ probe.called
Labels(modes) == {modes[i].label : i \in DOMAIN modes}
FirstWith(modes, label) == CHOOSE i \in DOMAIN modes :
  /\ modes[i].label = label
  /\ \A j \in 1..(i - 1) : modes[j].label # label

\* C23: no two entries of the catalog a device is created with have the same
\* label, and of the generated entries that share a label the catalog holds
\* the one generated first (vacuum-only, then mop-only, then combined)
C23_UniqueLabels ==
  Built =>
    LET catalog == probe.result.supportedCleanModes
        generated == probe.result.generated
    IN /\ \A i, j \in DOMAIN catalog : catalog[i].label = catalog[j].label => i = j
       /\ \A l \in Labels(generated) :
            \E i \in DOMAIN catalog : catalog[i] = generated[FirstWith(generated, l)]
       /\ generated # <<>> => Labels(catalog) = Labels(generated)

\* two categories generated an entry of one label, of different codes
C23_Witness ==
  /\ Built
  /\ \E i, j \in DOMAIN probe.result.generated :
       /\ i < j
       /\ probe.result.generated[i].label = probe.result.generated[j].label
       /\ probe.result.generated[i].mode # probe.result.generated[j].mode
       /\ probe.result.generated[i] \in Range(probe.result.supportedCleanModes)
       /\ probe.result.generated[j] \notin Range(probe.result.supportedCleanModes)

Fallback == Mode(<<"Vacuum">>, VacuumQuiet, <<"Vacuum", "Auto">>)

\* the reasons for which nothing is generated, read off the answers
NothingDerived(p) ==
  \/ "OperationModeControlCapability" \notin p.capabilities
  \/ p.operationModes = <<>>
  \/ LET offered == p.operationModes[1]
         names == getModeMapping(p.modeMapping)
     IN /\ names.vacuum \notin offered
        /\ ~(names.vacuum = "vacuum" /\ "vaccum" \in offered)
        /\ names.mop \notin offered
        /\ names.vacuumAndMop \notin offered

\* C24: the catalog is never empty; when nothing is derived (capability
\* absent, request failed, no configured mode offered) it is the one
\* fallback entry "Vacuum", and when something is derived the catalog is
\* made of derived entries only
C24_FallbackIffNothingDerived ==
  Built =>
    LET catalog == probe.result.supportedCleanModes
    IN /\ Len(catalog) >= 1
       /\ (NothingDerived(probe) <=> probe.result.generated = <<>>)
       /\ (NothingDerived(probe) => catalog = <<Fallback>>)
       /\ (~NothingDerived(probe) => Range(catalog) \subseteq Range(probe.result.generated))

\* the fallback catalog of a vendor that offers no configured mode
C24_Witness ==
  /\ Built
  /\ probe.result.supportedCleanModes = <<Fallback>>
  /\ probe.result.generated = <<>>
  /\ "OperationModeControlCapability" \in probe.capabilities
  /\ probe.operationModes = <<{"vacuum"}>>
  /\ probe.modeMapping.vacuum = "mop"

\* offset of a preset in the intensity table, -1 for a preset it lacks
OffsetOf(preset) ==
  CASE preset \in {"off", "min"} -> 4
    [] preset = "low" -> 2
    [] preset \in {"medium", "Medium"} -> 0
    [] preset = "high" -> 1
    [] preset \in {"max", "turbo"} -> 3
    [] OTHER -> 0 - 1

IntensityLabelOf(preset) ==
  CASE preset = "off" -> "Off"
    [] preset = "min" -> "Min"
    [] preset = "low" -> "Quiet"
    [] preset \in {"medium", "Medium"} -> "Auto"
    [] preset = "high" -> "Quick"
    [] preset = "max" -> "Max"
    [] preset = "turbo" -> "Turbo"
    [] OTHER -> "none"

\* C25: the entries createIntensityVariants generates for one category have
\* pairwise different codes, and for each offset the entry comes from the
\* first preset of the list that maps to the offset
C25_OneEntryPerOffset ==
  Built =>
    LET variants == probe.result.variants
        given == fanGiven(probe)
        presets == IF given = <<>> THEN <<>> ELSE given[1]
        firstOf(o) == CHOOSE i \in DOMAIN presets :
          /\ OffsetOf(presets[i]) = o
          /\ \A j \in 1..(i - 1) : OffsetOf(presets[j]) # o
        offsets == {OffsetOf(presets[i]) : i \in DOMAIN presets} \ {0 - 1}
    IN /\ \A i, j \in DOMAIN variants : variants[i].mode = variants[j].mode => i = j
       /\ offsets # {} =>
            /\ {variants[i].mode : i \in DOMAIN variants} = {VacuumQuiet + o : o \in offsets}
            /\ \A i \in DOMAIN variants :
                 variants[i].label[2] =
                   IntensityLabelOf(presets[firstOf(variants[i].mode - VacuumQuiet)])

\* "turbo" stands before "max" in the list: the entry of offset 3 is Turbo
C25_Witness ==
  /\ Built
  /\ fanGiven(probe) = << <<"turbo", "max", "off">> >>
  /\ Len(probe.result.variants) = 2
  /\ probe.result.variants[1].label[2] = "Turbo"
  /\ probe.result.variants[1].mode = VacuumQuiet + 3

(***************************************************************************)
(* The start of polling (SpecStartup).                                     *)
(***************************************************************************)
\* C26: the first poll of a device starts no earlier than 10000 ms after it
\* was scheduled, plus 1000 ms for every device registered before it, and two
\* devices at different positions of the registry have different delays
C26_StartDelay ==
  probe # <<>> =>
    /\ \A id \in DOMAIN probe.timers :
         LET t == probe.timers[id]
         IN /\ t.totalDelay >= MIN_INITIAL_DELAY
            /\ t.ranAt # null => t.ranAt - t.setAt >= MIN_INITIAL_DELAY
    /\ \A id, other \in DOMAIN probe.timers :
         probe.timers[id].position # probe.timers[other].position =>
           probe.timers[id].totalDelay # probe.timers[other].totalDelay

\* the delay of a device that is in the registry when its poll is scheduled
C26_DelayOfRegistered ==
  probe # <<>> =>
    \A id \in DOMAIN probe.timers :
      LET t == probe.timers[id]
      IN t.position >= 0 =>
           /\ t.totalDelay = MIN_INITIAL_DELAY + STAGGER * t.position
           /\ t.ranAt # null => t.ranAt - t.setAt >= MIN_INITIAL_DELAY + STAGGER * t.position

\* the second device of the registry has polled
C26_Witness ==
  /\ probe # <<>>
  /\ \E id \in DOMAIN probe.timers :
       /\ probe.timers[id].position = 1
       /\ probe.timers[id].ranAt # null

(***************************************************************************)
(* The poll period (SpecInterval).                                         *)
(***************************************************************************)
\* C27: for every configured interval v >= 0 the poll period is
\* min(60000, max(5000, v)), never below 5000 ms nor above 60000 ms
C27_Clamped ==
  probe # <<>> /\ probe.called =>
    /\ probe.result = Min(MAX_POLL, Max(MIN_POLL, probe.pollingInterval))
    /\ probe.result >= MIN_POLL
    /\ probe.result <= MAX_POLL

\* the period of an interval that is not 0, and the range of every period
C27_ClampedUnlessZero ==
  probe # <<>> /\ probe.called =>
    /\ probe.pollingInterval # 0 =>
         probe.result = Min(MAX_POLL, Max(MIN_POLL, probe.pollingInterval))
    /\ probe.pollingInterval = 0 => probe.result = DEFAULT_POLL
    /\ probe.result >= MIN_POLL
    /\ probe.result <= MAX_POLL

C29_PendingMonotone ==
  /\ vacuum.initialStatePending
  /\ [][
        /\ (~vacuum.initialStatePending => ~vacuum'.initialStatePending)
        /\ (vacuum.initialStatePending /\ ~vacuum'.initialStatePending
              => Reached({"delay500"}))
        /\ (Reached({"delay500"}) => ~vacuum'.initialStatePending)
     ]_vars

\* the flag is clear, the address was updated, a write has thrown and a
\* later cycle is in its attribute pass
C29_Witness ==
  /\ ~vacuum.initialStatePending
  /\ vacuum.ip = "10.0.0.2"
  /\ ~vacuum.online
  /\ \E c \in BagToSet(cycles) : c.pc \in TrackedWrites

(***************************************************************************)
(* The region sub-step (SpecRegion).                                       *)
(***************************************************************************)
\* the area ids of the catalog whose region is the one the lookup answered
AreasOfSegment ==
  IF probe.segment = <<>> THEN {}
  ELSE {a \in DOMAIN probe.v.areaToSegmentMap :
          probe.v.areaToSegmentMap[a] = probe.segment[1].segmentId}

\* C30: the region sub-step writes currentArea if and only if the lookup
\* answers a region that maps to an area id other than the last-published
\* one, and it writes that area id; with no region, a region outside the
\* catalog or the region last published it writes nothing and leaves the
\* last-published area as it is; the last-published area is unset or an area
\* id of the catalog
C30_RegionWrite ==
  probe # <<>> =>
    /\ probe.looked =>
         /\ probe.wrote <=> \E a \in AreasOfSegment : a # probe.before
         /\ probe.wrote =>
              probe.cs[Len(probe.cs)].value \in AreasOfSegment \ {probe.before}
         /\ probe.v.lastCurrentArea = probe.before
    /\ probe.v.lastCurrentArea \in {null} \cup DOMAIN probe.v.areaToSegmentMap

\* the robot has moved from one room of the catalog into a region that is
\* not in it: the first was published, the second lookup wrote nothing
C30_Witness ==
  /\ probe # <<>> /\ probe.looked
  /\ probe.before # null
  /\ probe.segment # <<>>
  /\ AreasOfSegment = {}
  /\ ~probe.wrote
  /\ probe.v.lastCurrentArea = probe.before

(***************************************************************************)
(* The life of the map cache (SpecFull).                                   *)
(***************************************************************************)
\* the activation d is suspended at pc by the step
Arrived(d, pc) == d.pc = pc /\ CopiesIn(d, cycles') > CopiesIn(d, cycles)

\* C31: a cycle asks for the full map before its lookup only if there is no
\* cache or its horizon has elapsed, and after the position payload only if
\* the payload's version is not the cache's; the cache and its horizon change
\* only in the step of a full-map fetch that answered, to a cache built of
\* the answer and to the time of the rebuild plus the refresh interval
C31_CacheLifecycle ==
  [][
     /\ \A d \in BagToSet(cycles') :
          /\ (Arrived(d, "getMapData1")
                => (vacuum.mapLayersCache = <<>> \/ now > vacuum.mapCacheValidUntil))
          /\ (Arrived(d, "getMapData2") /\ d.traced
                => d.version # vacuum.mapLayersCache[1].version)
     /\ (\/ vacuum'.mapLayersCache # vacuum.mapLayersCache
         \/ vacuum'.mapCacheValidUntil # vacuum.mapCacheValidUntil)
          => /\ \E c \in BagToSet(cycles) : c.pc \in {"getMapData1", "getMapData2"} /\ Took(c)
             /\ \E version \in MapVersions :
                  vacuum'.mapLayersCache =
                    <<[layers |-> MapData(version).layers, size |-> MapData(version).size,
                       pixelSize |-> MapData(version).pixelSize, timestamp |-> now,
                       version |-> version]>>
             /\ vacuum'.mapCacheValidUntil = now + refreshMs(config)
  ]_vars

\* a cycle has looked a region up in a cache that was built before the clock
\* last advanced, is within its horizon and has the version of the payload
C31_Witness ==
  /\ vacuum.mapLayersCache # <<>>
  /\ vacuum.mapLayersCache[1].timestamp < now
  /\ now <= vacuum.mapCacheValidUntil
  /\ \E c \in BagToSet(cycles) :
       /\ c.traced /\ c.pc = "setCurrentArea"
       /\ c.lookup # <<>> /\ c.lookup[1].current /\ ~c.lookup[1].expired

(***************************************************************************)
(* What the attribute pass leaves published (Spec).                        *)
(***************************************************************************)
\* the operational state of the two statuses the vendor of Spec reports
StateOf(status) == IF status = "Cleaning" THEN Running ELSE Docked

\* C32: when an activation whose snapshot has a status record ends its
\* attribute pass, the last-published run mode is Cleaning if and only if
\* that status is cleaning, and the last-published operational state is the
\* mapping of that status; the run mode published is Idle or Cleaning
C32_PublishedMatchesStatus ==
  /\ [](vacuum.lastRunMode \in {null, Idle, Cleaning})
  /\ [][
        \A c \in BagToSet(cycles) :
          (Took(c) /\ c.status # undefined /\ Reached({"delay500"}))
            => /\ (vacuum'.lastRunMode = Cleaning <=> c.status = "Cleaning")
               /\ vacuum'.lastOperationalState = StateOf(c.status)
     ]_vars

(***************************************************************************)
(* The needs-replacement boolean (SpecThreshold).                          *)
(***************************************************************************)
\* the threshold the configuration asks for: 10 if it names none
Configured(threshold) == IF threshold = null THEN DEFAULT_WARNING_THRESHOLD ELSE threshold

\* C33: for every consumable and every configured threshold, 0 included,
\* needs-replacement is round(remaining / max * 100) <= threshold, with 10
\* for a configuration without threshold, at device setup and at the
\* periodic check alike
C33_SameBoolean ==
  probe # <<>> /\ probe.called =>
    LET needs == lifePercent(probe.consumable, defaultMaxLifetimes)
                   <= Configured(probe.warningThreshold)
    IN /\ probe.result.setup = needs
       /\ probe.result.check = needs
       /\ probe.result.setup = probe.result.check

\* the boolean of device setup, and that of the check under a threshold
\* that is not 0
C33_SameBooleanUnlessZero ==
  probe # <<>> /\ probe.called =>
    LET needs == lifePercent(probe.consumable, defaultMaxLifetimes)
                   <= Configured(probe.warningThreshold)
    IN /\ probe.result.setup = needs
       /\ probe.warningThreshold # 0 => probe.result.check = needs

(***************************************************************************)
(* The bands of the clean-mode codes (SpecCatalog).                        *)
(***************************************************************************)
\* the band of the category an entry's tags name
Band(entry) ==
  IF Len(entry.modeTags) = 3 THEN VacuumMopQuiet..(VacuumMopQuiet + 4)
  ELSE IF entry.modeTags[1] = "Mop" THEN MopMin..MopHigh
  ELSE VacuumQuiet..(VacuumQuiet + 4)

\* C34: the code of every entry of the catalog lies in the band of the
\* entry's category: 66 to 70 vacuum-only, 31 to 34 mop-only, 5 to 9
\* combined, also when the mop entries are intensity variants
C34_CodesInBand ==
  Built =>
    \A i \in DOMAIN probe.result.supportedCleanModes :
      probe.result.supportedCleanModes[i].mode \in Band(probe.result.supportedCleanModes[i])

\* the codes of the vacuum-only and the combined entries, and of the mop
\* entries that are not the variant of the presets "off" and "min"
C34_CodesInBandUnlessMopMin ==
  Built =>
    \A i \in DOMAIN probe.result.supportedCleanModes :
      LET entry == probe.result.supportedCleanModes[i]
      IN \/ entry.mode \in Band(entry)
         \/ /\ entry.modeTags = <<"Mop", "Min">>
            /\ entry.mode = MopMin + 4

(***************************************************************************)
(* The clean-mode command (SpecCleanMode).                                 *)
(***************************************************************************)
\* the category of an entry: its base code and the operation mode configured
\* for it
CategoryOf(entry) ==
  IF Len(entry.modeTags) = 3
  THEN [base |-> VacuumMopQuiet, mode |-> getModeMapping(probe.modeMapping).vacuumAndMop]
  ELSE IF entry.modeTags[1] = "Mop"
  THEN [base |-> MopMin, mode |-> getModeMapping(probe.modeMapping).mop]
  ELSE [base |-> VacuumQuiet, mode |-> getModeMapping(probe.modeMapping).vacuum]

\* the entries of the catalog, vacuum-only or combined, that have the code of
\* the last request, each with the presets of the vendor that it was generated
\* from: the first of the list with its offset
RequestedEntries ==
  LET given == fanGiven(probe)
      presets == IF given = <<>> THEN <<>> ELSE given[1]
      modes == probe.supportedCleanModes
  IN {[entry |-> modes[i], preset |-> presets[j]] :
        <<i, j>> \in {ij \in (DOMAIN modes) \X (DOMAIN presets) :
                        /\ modes[ij[1]].mode = probe.newMode
                        /\ modes[ij[1]].modeTags[1] # "Mop" \/ Len(modes[ij[1]].modeTags) = 3
                        /\ Len(modes[ij[1]].label) = 2
                        /\ OffsetOf(presets[ij[2]]) =
                             modes[ij[1]].mode - CategoryOf(modes[ij[1]]).base
                        /\ \A k \in 1..(ij[2] - 1) :
                             OffsetOf(presets[k]) # OffsetOf(presets[ij[2]])}}

Sent(request, preset) ==
  \E i \in DOMAIN probe.sent : probe.sent[i] = [request |-> request, preset |-> preset]

\* C35: with no intensity overrides, a change-mode request with the code of a
\* vacuum-only or combined catalog entry generated from the fan-speed preset p
\* sends the operation mode of the entry's category and the fan-speed preset p
C35_RoundTrip ==
  (probe # <<>> /\ probe.created /\ probe.newMode # null
     /\ probe.intensityPresets = NoOverrides) =>
    \A r \in RequestedEntries :
      /\ Sent("setOperationMode", CategoryOf(r.entry).mode)
      /\ Sent("setFanSpeed", r.preset)

\* what holds of the round trip: the operation mode is the one of the category,
\* and the fan-speed preset sent is the one getIntensitySettings has at the
\* offset of the code, which is the preset of the entry only for "max"
C35_OperationModeOfCategory ==
  (probe # <<>> /\ probe.created /\ probe.newMode # null
     /\ probe.intensityPresets = NoOverrides) =>
    \A r \in RequestedEntries :
      /\ Sent("setOperationMode", CategoryOf(r.entry).mode)
      /\ Sent("setFanSpeed", r.preset) <=> r.preset = "max"

(***************************************************************************)
(* The sink (SpecSink).                                                    *)
(***************************************************************************)
lastPublished(v) ==
  [batPercentRemaining |-> v.lastBatteryLevel, batChargeState |-> v.lastBatteryChargeState,
   operationalState |-> v.lastOperationalState, currentMode |-> v.lastRunMode]

\* C36: the last-published value of every tracked attribute is the value the
\* sink holds for it
C36_LastPublishedIsHeld ==
  \A attribute \in DOMAIN probe : lastPublished(vacuum)[attribute] = probe[attribute]

\* what holds: a last-published value changes only in the step in which a
\* write of the attribute returns, to the value of the write, whether the sink
\* took it or not
C36_UpdatedWhenWriteReturns ==
  [][ \A attribute \in DOMAIN probe :
        lastPublished(vacuum')[attribute] # lastPublished(vacuum)[attribute] =>
          \E c \in Suspended(TrackedWrites) :
            /\ Took(c)
            /\ attributeWritten(c.pc) = attribute
            /\ lastPublished(vacuum')[attribute] = c.value ]_vars

(***************************************************************************)
(* Overlapping addVacuum (SpecRegistry).                                   *)
(***************************************************************************)
\* the activations of addVacuum that have created and stored a record in the
\* step and go on to initialize it (lines 311-345)
Stored ==
  {a \in BagToSet(adding') :
     a.pc = "initializeVacuum" /\ ~a.replaced /\ CopiesIn(a, adding') > CopiesIn(a, adding)}

\* C37: a record is created and stored for a system id only if the registry
\* holds no record of that id, so that at most one record is created, one
\* device registered and one polling task started for it
C37_OneRecordPerSystemId ==
  [][ \A a \in Stored : a.id \notin DOMAIN vacuums ]_vars

\* what holds: an activation whose duplicate check (line 283) finds a record
\* creates none
C37_DuplicateFoundCreatesNone ==
  [][ \A a \in AddingAt({"delay"}) :
        (CopiesIn(a, adding') < CopiesIn(a, adding) /\ a.id \in DOMAIN vacuums) =>
          /\ Stored = {}
          /\ DOMAIN vacuums' = DOMAIN vacuums ]_vars

(***************************************************************************)
(* The selection of areas (SpecSelection).                                 *)
(***************************************************************************)
\* the segment ids of the areas of the last selectAreas request that
\* completed, unless a stop has completed since
RECURSIVE SegmentIdsOf(_)
SegmentIdsOf(areas) ==
  IF areas = <<>> THEN <<>>
  ELSE (IF Head(areas) \in DOMAIN probe.areaToSegmentMap
        THEN <<probe.areaToSegmentMap[Head(areas)].id>> ELSE <<>>)
       \o SegmentIdsOf(Tail(areas))

SelectedNow == IF probe.stopped THEN <<>> ELSE SegmentIdsOf(probe.requested)

Issued(request) == \E i \in DOMAIN probe.issued : probe.issued[i].request = request

\* C38: a start request issues a segment clean of the segment ids selected
\* when the selection is non-empty and a full clean otherwise; the selected
\* ids and names have equal length; a stop that completed empties both
C38_StartCleansSelection ==
  /\ Len(probe.selectedSegmentIds) = Len(probe.selectedRoomNames)
  /\ probe.stopped => probe.selectedSegmentIds = <<>> /\ probe.selectedRoomNames = <<>>
  /\ Issued("cleanSegments") =>
       /\ probe.issued[1].segment_ids = SelectedNow
       /\ SelectedNow # <<>>
  /\ Issued("startCleaning") => SelectedNow = <<>>

\* what holds whether handlers overlap or not: the selection is that of the
\* last request, a segment clean is issued for the selection of the moment,
\* and a full clean only when nothing is selected
C38_SelectionOfLastRequest ==
  /\ Len(probe.selectedSegmentIds) = Len(probe.selectedRoomNames)
  /\ probe.selectedSegmentIds = SelectedNow
  /\ Issued("cleanSegments") => probe.issued[1].segment_ids = SelectedNow
  /\ Issued("startCleaning") => SelectedNow = <<>>

\* what holds of a start request that no other handler overlaps
C38_StartAlone ==
  [][ (/\ probe.handlers = SetToBag({[pc |-> "getMapSegmentationProperties"]})
       /\ probe'.handlers = EmptyBag
       /\ probe.selectedSegmentIds # <<>>) =>
        /\ probe'.issued[1].request = "cleanSegments"
        /\ probe'.issued[1].segment_ids = SelectedNow
        /\ SelectedNow # <<>> ]_vars

(***************************************************************************)
(* The region catalog (SpecAreas).                                         *)
(***************************************************************************)
\* C39: the location names of the catalog are pairwise different, the area
\* ids are 1..n in the order of the named segments, and different area ids
\* have different vendor segments
C39_DistinctAreas ==
  Built =>
    LET areas == probe.result
        valid == validSegments(probe.segments)
    IN /\ \A i, j \in DOMAIN areas : areas[i].locationName = areas[j].locationName => i = j
       /\ Len(areas) = Len(valid)
       /\ \A i \in DOMAIN areas : areas[i].areaId = i /\ areas[i].segment = valid[i].id
       /\ \A i, j \in DOMAIN areas : areas[i].segment = areas[j].segment => i = j

\* what holds: ids and segments are as claimed, and two areas have the same
\* location name only if the vendor names a segment as a suffix makes it: the
\* name of one, as the vendor gives it, is the name of the other with a count
C39_DistinctUnlessSuffixGiven ==
  Built =>
    LET areas == probe.result
        valid == validSegments(probe.segments)
    IN /\ Len(areas) = Len(valid)
       /\ \A i \in DOMAIN areas : areas[i].areaId = i /\ areas[i].segment = valid[i].id
       /\ \A i, j \in DOMAIN areas : areas[i].segment = areas[j].segment => i = j
       /\ \A i, j \in DOMAIN areas :
            (i # j /\ areas[i].locationName = areas[j].locationName) =>
              \E k \in {i, j} : trim(valid[k].name) = areas[k].locationName
                                  /\ Len(areas[k].locationName.words) > 1

(***************************************************************************)
(* A tracked write that throws (Spec).                                     *)
(***************************************************************************)
\* the step in which the write the activation c awaits throws
Threw(c) == Took(c) /\ c.pc \in TrackedWrites /\ Reached({"catch"})

\* the step in which the catch block runs for c, and c returns
CaughtStep(c) == Took(c) /\ c.pc = "catch"

\* the step in which the traced activation c ends its attribute pass and
\* clears the pending flag that a throw has left set: while the flag is set
\* the device is marked offline only by the catch block
ClearedBy(c, d) ==
  /\ Took(c) /\ c.traced /\ ~c.initial
  /\ ~vacuum.online
  /\ vacuum.initialStatePending /\ ~vacuum'.initialStatePending
  /\ d \in BagToSet(cycles') /\ d.traced /\ d.pc = "delay500"

AbortedByThrow ==
  \A c \in BagToSet(cycles) :
    /\ Threw(c) => vacuum' = vacuum
    /\ CaughtStep(c) =>
         /\ returned' # <<>> /\ returned'[1].from = "catch"
         /\ ~vacuum'.online
         /\ lastPublished(vacuum') = lastPublished(vacuum)
         /\ vacuum'.initialStatePending = vacuum.initialStatePending
         /\ c.initial => vacuum'.initialStatePending

\* C40 as stated: a tracked write that throws changes nothing of the device,
\* the activation then runs the catch block, which marks the device offline
\* and leaves the last-published values and the pending flag as they are, and
\* returns; after a throw in the first cycle the flag is set, and the later
\* cycle that clears it has published all four attributes
C40_AllFourAfterThrow ==
  [][ /\ AbortedByThrow
      /\ \A c \in BagToSet(cycles), d \in BagToSet(cycles') :
           ClearedBy(c, d) => WritesOfTracked(d) = TrackedAttributes ]_vars

\* C40, amended: the later cycle that clears the flag has published every
\* tracked attribute its snapshot has a record for, changed or not
C40_PresentAfterThrow ==
  [][ /\ AbortedByThrow
      /\ \A c \in BagToSet(cycles), d \in BagToSet(cycles') :
           ClearedBy(c, d) =>
             /\ d.pendingAtFetch
             /\ WritesOfTracked(d) = Present(d) ]_vars

\* a write threw and the device was marked offline; a later cycle found the
\* flag still set, has written all four attributes and has cleared the flag
C40_Witness ==
  /\ ~vacuum.online /\ ~vacuum.initialStatePending
  /\ \E o \in InFlight :
       /\ ~o.c.initial /\ o.at = "delay500" /\ o.c.pendingAtFetch
       /\ WritesOfTracked(o.c) = TrackedAttributes
====
